---- MODULE Spec2Model ----
(***************************************************************************)
(* UICourseAI: the intent parsers (chatbot/intent.py, chatbot/llm_intent.py)*)
(* and the query compiler (chatbot/actions.py).                             *)
(*                                                                         *)
(* A Python str is a sequence of one-character strings, so that lower(),   *)
(* strip(), the tokenizer's regular expression, substring tests and SQL    *)
(* LIKE are computed character by character.  A Python value whose type is *)
(* decided at run time (a dict entry, a decoded JSON value) is a record    *)
(* [t |-> type tag, v |-> payload].                                        *)
(***************************************************************************)
EXTENDS Integers, Sequences, FiniteSets, TLC

VARIABLES
    pc,          \* position of the request: "start", then what the handler did
    use_llm,     \* main_cli.get_intent: USE_LLM_INTENT == "1"
    user_text,   \* the text typed by the user
    collaborator,  \* what the text-completion service does: "ok", "no_client"
                 \* (OpenAI() raises) or "request_raises" (the request raises)
    requests,    \* the calls of client.chat.completions.create made so far
    content,     \* the text of the model's reply, where the request is followed
                 \* from that text on; empty elsewhere
    data,        \* the JSON object decoded from the model's reply
    intent,      \* the intent dict a parser returned; rank_professors' params
    warehouse_exists,  \* whether the parquet file is there
    warehouse,   \* its rows, in file order
    year_now,    \* datetime.now().year at the time of the call
    ranked,      \* the rows of the query's `ranked` CTE: those the WHERE keeps
    top_n,       \* rank_professors' top_n
    rows,        \* the records rank_professors or details_section returned
    log,         \* the levels of the records the call logged, in order
    con,         \* the call's DuckDB connection: "none" (never opened) or "closed"
    calls,       \* concurrent requests: for each caller, where its call stands,
                 \* its arguments, its connection and its result
    connections  \* the DuckDB connections made so far: owner, and whether open

vars == << pc, use_llm, user_text, collaborator, requests, content, data, intent,
           warehouse_exists, warehouse, year_now, ranked, top_n, rows, log, con,
           calls, connections >>

-----------------------------------------------------------------------------
(* Characters and str methods                                              *)

UPPER_LETTERS == << "A","B","C","D","E","F","G","H","I","J","K","L","M",
                    "N","O","P","Q","R","S","T","U","V","W","X","Y","Z" >>
LOWER_LETTERS == << "a","b","c","d","e","f","g","h","i","j","k","l","m",
                    "n","o","p","q","r","s","t","u","v","w","x","y","z" >>
DIGITS == << "0","1","2","3","4","5","6","7","8","9" >>

Range(f) == { f[i] : i \in DOMAIN f }

IndexIn(c, seq) == CHOOSE i \in DOMAIN seq : seq[i] = c

UPPER_SET == Range(UPPER_LETTERS)

LOWER_SET == Range(LOWER_LETTERS)

DIGIT_SET == Range(DIGITS)

LOWER_OF == [c \in UPPER_SET |-> LOWER_LETTERS[IndexIn(c, UPPER_LETTERS)]]

UPPER_OF == [c \in LOWER_SET |-> UPPER_LETTERS[IndexIn(c, LOWER_LETTERS)]]

DIGIT_VALUE == [c \in DIGIT_SET |-> IndexIn(c, DIGITS) - 1]

\* str.lower() / str.upper() on one character
LowerChar(c) == IF c \in UPPER_SET THEN LOWER_OF[c] ELSE c

UpperChar(c) == IF c \in LOWER_SET THEN UPPER_OF[c] ELSE c

Lower(s) == [i \in DOMAIN s |-> LowerChar(s[i])]

Upper(s) == [i \in DOMAIN s |-> UpperChar(s[i])]

IsSpace(c) == c \in {" ", "\t", "\n"}

\* str.strip()
RECURSIVE LStrip(_)
LStrip(s) == IF s # << >> /\ IsSpace(Head(s)) THEN LStrip(Tail(s)) ELSE s

RECURSIVE RStrip(_)
RStrip(s) ==
    IF s # << >> /\ IsSpace(s[Len(s)]) THEN RStrip(SubSeq(s, 1, Len(s) - 1)) ELSE s

Strip(s) == RStrip(LStrip(s))

\* str.isdigit()
IsDigitStr(s) == s # << >> /\ \A i \in DOMAIN s : s[i] \in DIGIT_SET

\* int(s) of a string of decimal digits
RECURSIVE DigitsToInt(_)
DigitsToInt(s) ==
    IF s = << >> THEN 0
    ELSE 10 * DigitsToInt(SubSeq(s, 1, Len(s) - 1)) + DIGIT_VALUE[s[Len(s)]]

\* str(n) of a natural number
RECURSIVE NatToDigits(_)
NatToDigits(n) ==
    IF n < 10 THEN << DIGITS[n + 1] >>
    ELSE NatToDigits(n \div 10) \o << DIGITS[(n % 10) + 1] >>

\* str(n) of an integer
IntToStr(n) == IF n < 0 THEN << "-" >> \o NatToDigits(-n) ELSE NatToDigits(n)

\* sub in s
Contains(sub, s) ==
    \E i \in 1..(Len(s) - Len(sub) + 1) : SubSeq(s, i, i + Len(sub) - 1) = sub

\* s.endswith(suffix)
EndsWith(s, suffix) ==
    Len(s) >= Len(suffix) /\ SubSeq(s, Len(s) - Len(suffix) + 1, Len(s)) = suffix

\* s.split("-")[0]
RECURSIVE BeforeDash(_)
BeforeDash(s) ==
    IF s = << >> \/ Head(s) = "-" THEN << >> ELSE << Head(s) >> \o BeforeDash(Tail(s))

-----------------------------------------------------------------------------
(* Run-time typed values                                                   *)

PyNone == [t |-> "none"]
PyStr(s) == [t |-> "str", v |-> s]
PyInt(n) == [t |-> "int", v |-> n]
PyBool(b) == [t |-> "bool", v |-> b]
PyList(q) == [t |-> "list", v |-> q]

\* dict.get(key): None when the key is absent
Get(d, key) == IF key \in DOMAIN d THEN d[key] ELSE PyNone

\* Python truth value of a value (what `if x`, `x or y`, bool(x) test)
Truthy(x) ==
    CASE x.t = "none" -> FALSE
      [] x.t = "bool" -> x.v
      [] x.t = "int" -> x.v # 0
      [] x.t = "float" -> x.v # 0
      [] x.t = "nonfinite" -> TRUE
      [] x.t = "str" -> x.v # << >>
      [] x.t = "list" -> x.v # << >>
      [] x.t = "dict" -> x.v # 0

-----------------------------------------------------------------------------
(* chatbot/intent.py: vocabulary                                           *)

SUBJECT_CODES ==
    { <<"C", "S">>, <<"M", "A", "T", "H">>, <<"S", "T", "A", "T">>,
      <<"E", "C", "E">>, <<"B", "I", "O", "E">>, <<"I", "E">>,
      <<"I", "D", "S">>, <<"D", "A">>, <<"D", "S">> }

POLARITY_MAP ==
    (<<"e", "a", "s", "y">> :> <<"e", "a", "s", "y">>) @@
    (<<"e", "a", "s", "i", "e", "r">> :> <<"e", "a", "s", "y">>) @@
    (<<"l", "e", "n", "i", "e", "n", "t">> :> <<"e", "a", "s", "y">>) @@
    (<<"c", "h", "i", "l", "l">> :> <<"e", "a", "s", "y">>) @@
    (<<"g", "o", "o", "d">> :> <<"e", "a", "s", "y">>) @@
    (<<"h", "a", "r", "d">> :> <<"h", "a", "r", "d">>) @@
    (<<"s", "t", "r", "i", "c", "t">> :> <<"h", "a", "r", "d">>) @@
    (<<"t", "o", "u", "g", "h">> :> <<"h", "a", "r", "d">>)

KEYWORD_SYNONYMS ==
    (<<"m", "l">> :>
      { <<"m", "l">>, <<"m", "a", "c", "h", "i", "n", "e">>,
        <<"l", "e", "a", "r", "n", "i", "n", "g">>, <<"m", "a", "c", "h", "i", "n", "e", "-", "l", "e", "a", "r", "n", "i", "n", "g">>,
        <<"d", "e", "e", "p">>, <<"d", "l">>,
        <<"a", "i">> }) @@
    (<<"a", "i">> :>
      { <<"a", "i">>, <<"a", "r", "t", "i", "f", "i", "c", "i", "a", "l">>,
        <<"i", "n", "t", "e", "l", "l", "i", "g", "e", "n", "c", "e">> }) @@
    (<<"d", "a", "t", "a">> :>
      { <<"d", "a", "t", "a">>, <<"m", "i", "n", "i", "n", "g">>,
        <<"a", "n", "a", "l", "y", "t", "i", "c", "s">> }) @@
    (<<"n", "l", "p">> :>
      { <<"n", "l", "p">>, <<"l", "a", "n", "g", "u", "a", "g", "e">>,
        <<"t", "e", "x", "t">> }) @@
    (<<"q", "u", "e", "r", "y">> :>
      { <<"q", "u", "e", "r", "y">>, <<"r", "e", "t", "r", "i", "e", "v", "a", "l">>,
        <<"i", "n", "f", "o", "r", "m", "a", "t", "i", "o", "n", "-", "r", "e", "t", "r", "i", "e", "v", "a", "l">>, <<"i", "r">>,
        <<"s", "e", "a", "r", "c", "h">> })

RECENT_TOKENS ==
    { <<"r", "e", "c", "e", "n", "t">>, <<"l", "a", "t", "e", "s", "t">>, <<"n", "e", "w">>,
      <<"n", "e", "w", "e", "r">> }

DETAIL_TOKENS ==
    { <<"d", "e", "t", "a", "i", "l", "s">>, <<"d", "e", "t", "a", "i", "l">>, <<"b", "r", "e", "a", "k", "d", "o", "w", "n">>,
      <<"p", "e", "r", "-", "s", "e", "m", "e", "s", "t", "e", "r">>, <<"s", "e", "m", "e", "s", "t", "e", "r">> }

\* Intent.keywords of intent.py: the family tags, in KEYWORD_SYNONYMS order
KEYWORD_KEYS ==
    << <<"m", "l">>, <<"a", "i">>, <<"d", "a", "t", "a">>, <<"n", "l", "p">>,
       <<"q", "u", "e", "r", "y">> >>

-----------------------------------------------------------------------------
(* chatbot/intent.py: the rule parser                                      *)

\* re.findall(r"[a-z0-9\-]+", ...): the characters of a token
IsTokenChar(c) == c \in LOWER_SET \/ c \in DIGIT_SET \/ c = "-"

\* the maximal runs of token characters of s, left to right
RECURSIVE FindAll(_, _, _)
FindAll(s, cur, acc) ==
    IF s = << >> THEN (IF cur = << >> THEN acc ELSE Append(acc, cur))
    ELSE IF IsTokenChar(Head(s)) THEN FindAll(Tail(s), Append(cur, Head(s)), acc)
    ELSE FindAll(Tail(s), << >>, IF cur = << >> THEN acc ELSE Append(acc, cur))

_tokenize(text) == FindAll(Lower(text), << >>, << >>)

\* index of the first TRUE of a sequence of booleans, 0 when there is none
FirstIndex(flags) ==
    IF \E i \in DOMAIN flags : flags[i]
    THEN CHOOSE i \in DOMAIN flags : flags[i] /\ \A j \in 1..(i - 1) : ~flags[j]
    ELSE 0

\* an _extract_subject that returns the token as typed, without .upper()
_extract_subject_as_typed(tokens) ==
    LET hit(t) == Upper(t) \in SUBJECT_CODES
        i == FirstIndex([k \in DOMAIN tokens |-> hit(tokens[k])])
    IN  IF i = 0 THEN PyNone ELSE PyStr(tokens[i])

_extract_subject(tokens) ==
    LET hit(t) == Upper(t) \in SUBJECT_CODES
        i == FirstIndex([k \in DOMAIN tokens |-> hit(tokens[k])])
    IN  IF i = 0 THEN PyNone ELSE PyStr(Upper(tokens[i]))

\* a token "<digits>-level"
IsLevelToken(t) ==
    EndsWith(t, <<"-", "l", "e", "v", "e", "l">>) /\ IsDigitStr(BeforeDash(t))

\* an _extract_class_num that takes all-digit tokens only
_extract_class_num_digits_only(tokens) ==
    LET i == FirstIndex([k \in DOMAIN tokens |-> IsDigitStr(tokens[k])])
    IN  IF i = 0 THEN PyNone ELSE PyStr(tokens[i])

_extract_class_num(tokens) ==
    LET hit(t) == IsDigitStr(t) \/ IsLevelToken(t)
        i == FirstIndex([k \in DOMAIN tokens |-> hit(tokens[k])])
    IN  IF i = 0 THEN PyNone
        ELSE IF IsDigitStr(tokens[i]) THEN PyStr(tokens[i])
        ELSE PyStr(BeforeDash(tokens[i]))

\* an _extract_level without the "<digits> level" form
_extract_level_dashed_only(tokens) ==
    LET i == FirstIndex([k \in DOMAIN tokens |-> IsLevelToken(tokens[k])])
    IN  IF i = 0 THEN PyNone ELSE PyInt(DigitsToInt(BeforeDash(tokens[i])))

_extract_level(tokens) ==
    LET hit(i) ==
            \/ IsLevelToken(tokens[i])
            \/ /\ IsDigitStr(tokens[i])
               /\ i + 1 <= Len(tokens)
               /\ tokens[i + 1] = <<"l", "e", "v", "e", "l">>
    IN  IF \E i \in DOMAIN tokens : hit(i)
        THEN LET i == CHOOSE k \in DOMAIN tokens :
                          hit(k) /\ \A j \in 1..(k - 1) : ~hit(j)
             IN  IF IsLevelToken(tokens[i])
                 THEN PyInt(DigitsToInt(BeforeDash(tokens[i])))
                 ELSE PyInt(DigitsToInt(tokens[i]))
        ELSE PyNone

\* an _extract_polarity that lets a later polarity word override an earlier one
_extract_polarity_last(tokens) ==
    LET hits == { k \in DOMAIN tokens : tokens[k] \in DOMAIN POLARITY_MAP }
    IN  IF hits = {} THEN <<"e", "a", "s", "y">>
        ELSE POLARITY_MAP[tokens[CHOOSE k \in hits : \A j \in hits : j <= k]]

_extract_polarity(tokens) ==
    LET hit(t) == t \in DOMAIN POLARITY_MAP
        i == FirstIndex([k \in DOMAIN tokens |-> hit(tokens[k])])
    IN  IF i = 0 THEN <<"e", "a", "s", "y">> ELSE POLARITY_MAP[tokens[i]]

\* an _extract_keywords that stops at the first family a token belongs to
_extract_keywords_one_family(tokens) ==
    { key \in DOMAIN KEYWORD_SYNONYMS :
        \E i \in DOMAIN tokens :
           /\ tokens[i] \in KEYWORD_SYNONYMS[key]
           /\ \A k \in DOMAIN KEYWORD_KEYS :
                 tokens[i] \in KEYWORD_SYNONYMS[KEYWORD_KEYS[k]]
                    => k >= IndexIn(key, KEYWORD_KEYS) }

\* the set `found`; list(found) enumerates it in the order of the str hashes
_extract_keywords(tokens) ==
    { key \in DOMAIN KEYWORD_SYNONYMS :
        \E i \in DOMAIN tokens : tokens[i] \in KEYWORD_SYNONYMS[key] }

\* an _extract_recent that looks at the first token only
_extract_recent_first_token(tokens) == tokens # << >> /\ tokens[1] \in RECENT_TOKENS

_extract_recent(tokens) == \E i \in DOMAIN tokens : tokens[i] \in RECENT_TOKENS

_extract_details(tokens) == \E i \in DOMAIN tokens : tokens[i] \in DETAIL_TOKENS

garbage ==
    RECENT_TOKENS \cup DETAIL_TOKENS \cup DOMAIN POLARITY_MAP
        \cup UNION { KEYWORD_SYNONYMS[key] : key \in DOMAIN KEYWORD_SYNONYMS }
        \cup { Lower(s) : s \in SUBJECT_CODES } \cup { <<"l", "e", "v", "e", "l">> }

\* an _extract_instructor_like that returns the first leftover token
_extract_instructor_like_first(text) ==
    LET tokens == _tokenize(text)
        tail == SelectSeq(tokens, LAMBDA t : ~IsDigitStr(t) /\ t \notin garbage)
    IN  IF tail # << >> THEN PyStr(tail[1]) ELSE PyNone

_extract_instructor_like(text) ==
    LET tokens == _tokenize(text)
        tail == SelectSeq(tokens, LAMBDA t : ~IsDigitStr(t) /\ t \notin garbage)
    IN  IF tail # << >> THEN PyStr(tail[Len(tail)]) ELSE PyNone

\* the sequences that list(s) can return for a set s
ListsOf(s) ==
    { q \in [1..Cardinality(s) -> s] : \A i, j \in DOMAIN q : q[i] = q[j] => i = j }

\* a to_dict that leaves the "explain" entry out of the dict it builds
RuleToDictNoExplain(polarity, subject, class_num, kw, recent, level, instructor_like, explain, details) ==
    [ polarity |-> polarity,
      subject |-> subject,
      class_num |-> class_num,
      keywords |-> IF Truthy(kw) THEN kw ELSE PyList(<< >>),
      recent |-> recent,
      level |-> level,
      instructor_like |-> instructor_like,
      details |-> details ]

\* Intent.to_dict of intent.py; kw is None (the dataclass default) or a list
RuleToDict(polarity, subject, class_num, kw, recent, level, instructor_like, explain, details) ==
    [ polarity |-> polarity,
      subject |-> subject,
      class_num |-> class_num,
      keywords |-> IF Truthy(kw) THEN kw ELSE PyList(<< >>),
      recent |-> recent,
      level |-> level,
      instructor_like |-> instructor_like,
      explain |-> explain,
      details |-> details ]

\* parse(user_text), with list(found) = kwlist
parse(text, kwlist) ==
    LET tokens == _tokenize(text)
        details == _extract_details(tokens)
        explain ==
            \/ Contains(<<"-", "-", "e", "x", "p", "l", "a", "i", "n">>, Lower(text))
            \/ Contains(<<"-", "e", "x", "p", "l", "a", "i", "n">>, Lower(text))
    IN  RuleToDict(
            PyStr(_extract_polarity(tokens)),
            _extract_subject(tokens),
            _extract_class_num(tokens),
            PyList([i \in DOMAIN kwlist |-> PyStr(kwlist[i])]),
            PyBool(_extract_recent(tokens)),
            _extract_level(tokens),
            IF details \/ (\E i \in DOMAIN tokens :
                             tokens[i] = <<"d", "e", "t", "a", "i", "l", "s">>)
            THEN _extract_instructor_like(text) ELSE PyNone,
            PyBool(explain),
            PyBool(details))

-----------------------------------------------------------------------------
(* chatbot/llm_intent.py: normalization of the model's JSON object         *)

\* a JSON number with a fraction or exponent, in tenths (5807 is 580.7)
PyFloat(tenths) == [t |-> "float", v |-> tenths]

\* NaN, Infinity, -Infinity (json.loads accepts the three literals, and
\* decodes an out-of-range number such as 1e999 to Infinity)
NonFinite(which) == [t |-> "nonfinite", v |-> which]

\* a nested JSON object with n members
PyDict(n) == [t |-> "dict", v |-> n]

\* isinstance(x, str), isinstance(x, list)
IsStr(x) == x.t = "str"

IsList(x) == x.t = "list"

\* isinstance(x, (int, float)): bool is a subclass of int
IsNumber(x) == x.t \in {"int", "float", "nonfinite", "bool"}

\* int(x) raises ValueError on NaN and OverflowError on an infinity
IntRaises(x) == x.t = "nonfinite"

\* int(x) of a finite number: truncation towards zero
IntOf(x) ==
    CASE x.t = "int" -> x.v
      [] x.t = "bool" -> (IF x.v THEN 1 ELSE 0)
      [] x.t = "float" -> (IF x.v >= 0 THEN x.v \div 10 ELSE -((-x.v) \div 10))

\* str(x) of a value that is not a str
Repr(x) ==
    CASE x.t = "none" -> <<"N", "o", "n", "e">>
      [] x.t = "bool" -> (IF x.v THEN <<"T", "r", "u", "e">>
                                 ELSE <<"F", "a", "l", "s", "e">>)
      [] x.t = "int" -> IntToStr(x.v)
      [] x.t = "float" ->
            (IF x.v < 0 THEN <<"-">> ELSE << >>)
                \o NatToDigits((IF x.v < 0 THEN -x.v ELSE x.v) \div 10) \o <<".">>
                \o NatToDigits((IF x.v < 0 THEN -x.v ELSE x.v) % 10)
      [] x.t = "nonfinite" -> x.v
      [] x.t = "list" -> (IF x.v = << >> THEN <<"[", "]">> ELSE <<"[", ".", "]">>)
      [] x.t = "dict" -> (IF x.v = 0 THEN <<"{", "}">> ELSE <<"{", ".", "}">>)

\* the tags _normalize_intent_dict keeps
LLM_KEYWORDS ==
    { <<"m", "l">>, <<"d", "a", "t", "a">>, <<"n", "l", "p">>, <<"a", "i">>,
      <<"b", "i", "o">>, <<"s", "t", "a", "t", "s">>,
      <<"s", "y", "s", "t", "e", "m", "s">>, <<"t", "h", "e", "o", "r", "y">> }

\* code point order of the characters of the model
CHAR_ORDER ==
    << "\t", "\n", " ", "%", "'", "-", ".">> \o DIGITS \o UPPER_LETTERS
        \o <<"[", "]", "_">> \o LOWER_LETTERS \o <<"{", "}">>

\* a < b for two str
RECURSIVE StrLess(_, _)
StrLess(a, b) ==
    IF b = << >> THEN FALSE
    ELSE IF a = << >> THEN TRUE
    ELSE IF Head(a) = Head(b) THEN StrLess(Tail(a), Tail(b))
    ELSE IndexIn(Head(a), CHAR_ORDER) < IndexIn(Head(b), CHAR_ORDER)

\* sorted(s) of a set of str
Sorted(s) ==
    CHOOSE q \in ListsOf(s) : \A i, j \in DOMAIN q : i < j => StrLess(q[i], q[j])

\* a polarity fallback that looks for "hard" and "strict" in the text as typed
NormPolarityAsTyped(d, original_text) ==
    LET p == Get(d, "polarity")
        polarity == IF ~Truthy(p) THEN << >>
                    ELSE IF IsStr(p) THEN Lower(p.v) ELSE Lower(Repr(p))
    IN  IF polarity \in { <<"e", "a", "s", "y">>, <<"h", "a", "r", "d">> } THEN polarity
        ELSE IF \/ Contains(<<"h", "a", "r", "d">>, original_text)
                \/ Contains(<<"s", "t", "r", "i", "c", "t">>, original_text)
        THEN <<"h", "a", "r", "d">>
        ELSE <<"e", "a", "s", "y">>

NormPolarity(d, original_text) ==
    LET p == Get(d, "polarity")
        polarity == IF ~Truthy(p) THEN << >>
                    ELSE IF IsStr(p) THEN Lower(p.v) ELSE Lower(Repr(p))
        text_lower == Lower(original_text)
    IN  IF polarity \in { <<"e", "a", "s", "y">>, <<"h", "a", "r", "d">> } THEN polarity
        ELSE IF \/ Contains(<<"h", "a", "r", "d">>, text_lower)
                \/ Contains(<<"s", "t", "r", "i", "c", "t">>, text_lower)
        THEN <<"h", "a", "r", "d">>
        ELSE <<"e", "a", "s", "y">>

NormSubject(d) ==
    LET subject == Get(d, "subject")
    IN  IF IsStr(subject) /\ Strip(subject.v) # << >>
        THEN PyStr(Strip(Upper(subject.v))) ELSE PyNone

NormClassNum(d) ==
    LET class_num == Get(d, "class_num")
    IN  IF IsNumber(class_num) THEN PyStr(IntToStr(IntOf(class_num)))
        ELSE IF IsStr(class_num)
        THEN (IF Strip(class_num.v) # << >> THEN PyStr(Strip(class_num.v)) ELSE PyNone)
        ELSE PyNone

NormKeywords(d) ==
    LET got == Get(d, "keywords")
        raw_keywords == IF Truthy(got) /\ IsList(got) THEN got.v ELSE << >>
        kept == { Strip(Lower(raw_keywords[i].v)) :
                    i \in { j \in DOMAIN raw_keywords : IsStr(raw_keywords[j]) } }
        keywords == Sorted(kept \cap LLM_KEYWORDS)
    IN  PyList([i \in DOMAIN keywords |-> PyStr(keywords[i])])

NormLevel(d) ==
    LET level == Get(d, "level")
    IN  IF IsNumber(level) THEN PyInt(IntOf(level)) ELSE PyNone

NormInstructorLike(d) ==
    LET instr == Get(d, "instructor_like")
    IN  IF IsStr(instr) /\ Strip(instr.v) # << >>
        THEN PyStr(Lower(Strip(instr.v))) ELSE PyNone

\* whether _normalize_intent_dict raises instead of returning
NormalizeRaises(d) ==
    \/ IsNumber(Get(d, "class_num")) /\ IntRaises(Get(d, "class_num"))
    \/ IsNumber(Get(d, "level")) /\ IntRaises(Get(d, "level"))

\* the Intent _normalize_intent_dict returns when it returns
_normalize_intent_dict(d, original_text) ==
    [ polarity |-> PyStr(NormPolarity(d, original_text)),
      subject |-> NormSubject(d),
      class_num |-> NormClassNum(d),
      keywords |-> NormKeywords(d),
      recent |-> PyBool(Truthy(Get(d, "recent"))),
      level |-> NormLevel(d),
      instructor_like |-> NormInstructorLike(d),
      explain |-> PyBool(Truthy(Get(d, "explain"))),
      details |-> PyBool(Truthy(Get(d, "details"))) ]

\* Intent.to_dict of llm_intent.py: asdict(), with keywords None made []
LLMToDict(obj) ==
    LET d == [ name \in { "polarity", "subject", "class_num", "keywords", "recent",
                          "level", "instructor_like", "explain", "details" }
                 |-> obj[name] ]
    IN  IF d["keywords"] = PyNone THEN [d EXCEPT !["keywords"] = PyList(<< >>)] ELSE d

-----------------------------------------------------------------------------
(* chatbot/actions.py: the SQL the compiler builds, evaluated as DuckDB does *)

DEFAULT_RECENCY_YEARS == 5

MIN_ENROLLMENT == 8

\* SQL's NULL, and a non-NULL INTEGER
SqlNull == [null |-> TRUE, v |-> 0]

SqlInt(n) == [null |-> FALSE, v |-> n]

\* TRY_CAST(s AS INTEGER) of a VARCHAR: an optional sign and decimal digits
TryCastInt(s) ==
    IF IsDigitStr(s) THEN SqlInt(DigitsToInt(s))
    ELSE IF s # << >> /\ Head(s) = "-" /\ IsDigitStr(Tail(s))
    THEN SqlInt(-DigitsToInt(Tail(s)))
    ELSE IF s # << >> /\ Head(s) = "+" /\ IsDigitStr(Tail(s))
    THEN SqlInt(DigitsToInt(Tail(s)))
    ELSE SqlNull

\* s LIKE pattern: % matches any run of characters, _ any one character
RECURSIVE Like(_, _)
Like(s, pattern) ==
    IF pattern = << >> THEN s = << >>
    ELSE IF pattern = <<"%">> THEN TRUE
    ELSE IF Head(pattern) = "%"
    THEN \E k \in 0..Len(s) : Like(SubSeq(s, k + 1, Len(s)), Tail(pattern))
    ELSE /\ s # << >>
         /\ Head(pattern) = "_" \/ Head(pattern) = Head(s)
         /\ Like(Tail(s), Tail(pattern))

\* the year of a semester code: 'FA23' -> 2023, NULL when it does not decode
_semester_year_sql(semester) ==
    IF Len(semester) = 4 /\ ~TryCastInt(SubSeq(semester, 3, 4)).null
    THEN SqlInt(2000 + TryCastInt(SubSeq(semester, 3, 4)).v)
    ELSE SqlNull

\* s.replace("'", "''")
RECURSIVE _escape_single_quotes(_)
_escape_single_quotes(s) ==
    IF s = << >> THEN << >>
    ELSE (IF Head(s) = "'" THEN <<"'", "'">> ELSE << Head(s) >>)
            \o _escape_single_quotes(Tail(s))

\* the value of the SQL string literal written 'body' ('' stands for one
\* quote; a body with a lone quote is not a literal, and the intents of the
\* model put no quote in subject and class_num, which are not escaped)
RECURSIVE SqlLiteral(_)
SqlLiteral(body) ==
    IF body = << >> THEN << >>
    ELSE IF Len(body) >= 2 /\ body[1] = "'" /\ body[2] = "'"
    THEN <<"'">> \o SqlLiteral(SubSeq(body, 3, Len(body)))
    ELSE << Head(body) >> \o SqlLiteral(Tail(body))

RECURSIVE GCD(_, _)
GCD(a, b) == IF b = 0 THEN a ELSE GCD(b, a % b)

\* a DOUBLE that is the quotient n / d of two small integers, in lowest terms
Ratio(n, d) == LET g == GCD(n, d) IN [n |-> n \div g, d |-> d \div g]

RatioLess(x, y) == x.n * y.d < y.n * x.d

\* the columns _base_query selects, with the two rates computed
BaseSelect(table) ==
    [i \in DOMAIN table |->
        LET r == table[i]
        IN  [ subject |-> r.subject,
              class_num |-> r.class_num,
              class_title |-> r.class_title,
              instructor |-> r.instructor,
              semester |-> r.semester,
              total_students |-> r.total_students,
              A_rate |-> IF r.total_students > 0
                         THEN Ratio(r.A * 100, r.total_students)
                         ELSE Ratio(0, 1),
              DFW_rate |-> IF r.total_students > 0
                           THEN Ratio((r.D + r.F + r.withdrawn) * 100,
                                      r.total_students)
                           ELSE Ratio(0, 1) ]]

\* The WHERE clause is a sequence of tokens: the connectives and parentheses
\* of the SQL text, and the comparisons between them.
AND == [a |-> "AND"]
OR == [a |-> "OR"]
LPAREN == [a |-> "("]
RPAREN == [a |-> ")"]
TitleLike(word) == [a |-> "title_like", x |-> <<"%">> \o word \o <<"%">>]

\* WHERE total_students IS NOT NULL AND total_students > 0
BaseWhere ==
    << [a |-> "total_students_not_null"], AND, [a |-> "total_students_gt", x |-> 0] >>

\* " <sep> ".join(parts)
RECURSIVE JoinTokens(_, _)
JoinTokens(parts, sep) ==
    IF parts = << >> THEN << >>
    ELSE IF Len(parts) = 1 THEN parts[1]
    ELSE parts[1] \o << sep >> \o JoinTokens(Tail(parts), sep)

\* the OR'd LIKEs appended for one keyword, << >> when none is appended
KeywordClause(k_low) ==
    IF k_low = <<"m", "l">>
    THEN JoinTokens(<< <<TitleLike(<<"m", "a", "c", "h", "i", "n", "e">>)>>,
                       <<TitleLike(<<"l", "e", "a", "r", "n", "i", "n", "g">>)>>,
                       <<TitleLike(<<"a", "i">>)>> >>, OR)
    ELSE IF k_low = <<"a", "i">>
    THEN JoinTokens(<< <<TitleLike(<<"a", "r", "t", "i", "f", "i", "c", "i", "a", "l">>)>>,
                       <<TitleLike(<<"i", "n", "t", "e", "l", "l", "i", "g", "e", "n", "c", "e">>)>>,
                       <<TitleLike(<<"a", "i">>)>> >>, OR)
    ELSE IF k_low = <<"d", "a", "t", "a">>
    THEN <<TitleLike(<<"d", "a", "t", "a">>)>>
    ELSE IF k_low \in { <<"n", "l", "p">>, <<"l", "a", "n", "g", "u", "a", "g", "e">> }
    THEN JoinTokens(<< <<TitleLike(<<"l", "a", "n", "g", "u", "a", "g", "e">>)>>,
                       <<TitleLike(<<"n", "l", "p">>)>>,
                       <<TitleLike(<<"t", "e", "x", "t">>)>> >>, OR)
    ELSE IF k_low \in { <<"q", "u", "e", "r", "y">>,
                        <<"r", "e", "t", "r", "i", "e", "v", "a", "l">>, <<"i", "r">> }
    THEN JoinTokens(<< <<TitleLike(<<"q", "u", "e", "r", "y">>)>>,
                       <<TitleLike(<<"r", "e", "t", "r", "i", "e", "v", "a", "l">>)>>,
                       <<TitleLike(<<"i", "n", "f", "o", "r", "m", "a", "t", "i", "o", "n">>)>> >>, OR)
    ELSE << >>

\* str(k).lower() of a member of the keywords list
KeywordLow(k) == IF IsStr(k) THEN Lower(k.v) ELSE Lower(Repr(k))

\* the list keyword_clause
KeywordClauses(params) ==
    LET got == Get(params, "keywords")
        kw == IF Truthy(got) THEN got.v ELSE << >>
        each == [i \in DOMAIN kw |-> KeywordClause(KeywordLow(kw[i]))]
    IN  SelectSeq(each, LAMBDA c : c # << >>)

\* "(" + " OR ".join(keyword_clause) + ")"
KeywordGroup(keyword_clause) ==
    << LPAREN >> \o JoinTokens(keyword_clause, OR) \o << RPAREN >>

\* UPPER(subject) = '<SUBJECT>'
SubjectClause(params) ==
    LET subject == Get(params, "subject")
    IN  IF Truthy(subject)
        THEN << << [a |-> "upper_subject_eq", x |-> SqlLiteral(Upper(subject.v))] >> >>
        ELSE << >>

\* class_num = '<class_num>'
ClassNumClause(params) ==
    LET class_num == Get(params, "class_num")
    IN  IF Truthy(class_num)
        THEN << << [a |-> "class_num_eq", x |-> SqlLiteral(class_num.v)] >> >>
        ELSE << >>

\* TRY_CAST(class_num AS INTEGER) BETWEEN lvl AND lvl + 99
LevelClause(params) ==
    LET level == Get(params, "level")
    IN  IF Truthy(level)
        THEN << << [a |-> "class_num_between",
                    x |-> << IntOf(level), IntOf(level) + 99 >>] >> >>
        ELSE << >>

\* the keyword LIKEs, OR'd inside one pair of parentheses
KeywordsClause(params) ==
    LET keyword_clause == KeywordClauses(params)
    IN  IF keyword_clause # << >> THEN << KeywordGroup(keyword_clause) >> ELSE << >>

\* LOWER(instructor) LIKE '%<inst>%'
InstructorClause(params) ==
    LET inst == Get(params, "instructor_like")
    IN  IF Truthy(inst)
        THEN << << [a |-> "instructor_like",
                    x |-> <<"%">> \o SqlLiteral(_escape_single_quotes(Lower(inst.v)))
                            \o <<"%">>] >> >>
        ELSE << >>

\* an enrollment guard that does not look at class_num
EnrollmentClauseAlways(params) ==
    << << [a |-> "total_students_ge", x |-> MIN_ENROLLMENT] >> >>

\* total_students >= MIN_ENROLLMENT, unless a class_num is given
EnrollmentClause(params) ==
    IF ~Truthy(Get(params, "class_num"))
    THEN << << [a |-> "total_students_ge", x |-> MIN_ENROLLMENT] >> >>
    ELSE << >>

\* a recency filter that reads a key the intent does not have
RecencyClauseWrongKey(params, now) ==
    IF Truthy(Get(params, "recency"))
    THEN << << [a |-> "year_ge", x |-> now - DEFAULT_RECENCY_YEARS] >> >>
    ELSE << >>

\* <year of the semester> >= year_now - DEFAULT_RECENCY_YEARS
RecencyClause(params, now) ==
    IF Truthy(Get(params, "recent"))
    THEN << << [a |-> "year_ge", x |-> now - DEFAULT_RECENCY_YEARS] >> >>
    ELSE << >>

\* the list `clauses` of _apply_filters, each clause a token sequence
Clauses(params, now) ==
    SubjectClause(params) \o ClassNumClause(params) \o LevelClause(params)
        \o KeywordsClause(params) \o InstructorClause(params)
        \o EnrollmentClause(params) \o RecencyClause(params, now)

\* the WHERE clause of _apply_filters(_base_query(warehouse), params)
_apply_filters(params, now) ==
    LET clauses == Clauses(params, now)
    IN  IF clauses # << >> THEN BaseWhere \o << AND >> \o JoinTokens(clauses, AND)
        ELSE BaseWhere

\* SQL's three truth values
SqlBool(b) == IF b THEN "T" ELSE "F"

\* one comparison on one row
EvalAtom(atom, r) ==
    CASE atom.a = "total_students_not_null" -> "T"
      [] atom.a = "total_students_gt" -> SqlBool(r.total_students > atom.x)
      [] atom.a = "upper_subject_eq" -> SqlBool(Upper(r.subject) = atom.x)
      [] atom.a = "class_num_eq" -> SqlBool(r.class_num = atom.x)
      [] atom.a = "class_num_between" ->
            (IF TryCastInt(r.class_num).null THEN "N"
             ELSE SqlBool(/\ atom.x[1] <= TryCastInt(r.class_num).v
                          /\ TryCastInt(r.class_num).v <= atom.x[2]))
      [] atom.a = "title_like" -> SqlBool(Like(Lower(r.class_title), atom.x))
      [] atom.a = "instructor_like" -> SqlBool(Like(Lower(r.instructor), atom.x))
      [] atom.a = "total_students_ge" -> SqlBool(r.total_students >= atom.x)
      [] atom.a = "year_ge" ->
            (IF _semester_year_sql(r.semester).null THEN "N"
             ELSE SqlBool(_semester_year_sql(r.semester).v >= atom.x))

\* the pieces of tokens between the occurrences of sep outside parentheses;
\* cur is the piece being read, depth the number of parentheses open
RECURSIVE SplitScan(_, _, _, _, _)
SplitScan(tokens, sep, depth, cur, acc) ==
    IF tokens = << >> THEN Append(acc, cur)
    ELSE LET tok == Head(tokens)
         IN  IF tok.a = sep.a /\ depth = 0
             THEN SplitScan(Tail(tokens), sep, depth, << >>, Append(acc, cur))
             ELSE SplitScan(Tail(tokens), sep,
                            IF tok.a = "(" THEN depth + 1
                            ELSE IF tok.a = ")" THEN depth - 1 ELSE depth,
                            Append(cur, tok), acc)

SplitTop(tokens, sep) == SplitScan(tokens, sep, 0, << >>, << >>)

SqlAnd(vals) ==
    IF \E i \in DOMAIN vals : vals[i] = "F" THEN "F"
    ELSE IF \E i \in DOMAIN vals : vals[i] = "N" THEN "N" ELSE "T"

SqlOr(vals) ==
    IF \E i \in DOMAIN vals : vals[i] = "T" THEN "T"
    ELSE IF \E i \in DOMAIN vals : vals[i] = "N" THEN "N" ELSE "F"

\* the expression the SQL parser reads from the tokens: AND binds tighter
\* than OR, so it is an OR of ANDs of comparisons and parenthesised expressions
RECURSIVE ParseExpr(_)
ParseExpr(tokens) ==
    LET terms == SplitTop(tokens, OR)
        factor(f) == IF Len(f) = 1 THEN [leaf |-> TRUE, e |-> f[1]]
                     ELSE [leaf |-> FALSE, e |-> ParseExpr(SubSeq(f, 2, Len(f) - 1))]
        term(tm) == LET fs == SplitTop(tm, AND)
                    IN  [j \in DOMAIN fs |-> factor(fs[j])]
    IN  [i \in DOMAIN terms |-> term(terms[i])]

\* the value of a parsed expression on a row
RECURSIVE EvalExpr(_, _)
EvalExpr(expr, r) ==
    SqlOr([i \in DOMAIN expr |->
            SqlAnd([j \in DOMAIN expr[i] |->
                     IF expr[i][j].leaf THEN EvalAtom(expr[i][j].e, r)
                     ELSE EvalExpr(expr[i][j].e, r)])])

\* the rows of the CTE `ranked`: those the WHERE clause is true of
Ranked(table, params, now) ==
    LET where == ParseExpr(_apply_filters(params, now))
    IN  SelectSeq(BaseSelect(table), LAMBDA r : EvalExpr(where, r) = "T")

\* an _order_clause that ignores the polarity
_order_clause_easy_only(polarity) ==
    << <<"A_rate", "DESC">>, <<"DFW_rate", "ASC">>, <<"total_students", "DESC">>,
       <<"year", "DESC">> >>

\* ORDER BY: the columns and directions
_order_clause(polarity) ==
    IF polarity = PyStr(<<"h", "a", "r", "d">>)
    THEN << <<"DFW_rate", "DESC">>, <<"A_rate", "ASC">>, <<"total_students", "DESC">>,
            <<"year", "DESC">> >>
    ELSE << <<"A_rate", "DESC">>, <<"DFW_rate", "ASC">>, <<"total_students", "DESC">>,
            <<"year", "DESC">> >>

\* x sorts strictly before y on one ORDER BY key; a NULL sorts last in either
\* direction (DuckDB's default_null_order)
KeyBefore(key, x, y) ==
    LET col == key[1]
        asc == key[2] = "ASC"
    IN  CASE col = "A_rate" ->
                (IF asc THEN RatioLess(x.A_rate, y.A_rate)
                        ELSE RatioLess(y.A_rate, x.A_rate))
          [] col = "DFW_rate" ->
                (IF asc THEN RatioLess(x.DFW_rate, y.DFW_rate)
                        ELSE RatioLess(y.DFW_rate, x.DFW_rate))
          [] col = "total_students" ->
                (IF asc THEN x.total_students < y.total_students
                        ELSE y.total_students < x.total_students)
          [] col = "year" ->
                LET yx == _semester_year_sql(x.semester)
                    yy == _semester_year_sql(y.semester)
                IN  IF yx.null THEN FALSE
                    ELSE IF yy.null THEN TRUE
                    ELSE IF asc THEN yx.v < yy.v ELSE yy.v < yx.v

\* x sorts strictly before y under the whole ORDER BY
RECURSIVE Before(_, _, _)
Before(keys, x, y) ==
    IF keys = << >> THEN FALSE
    ELSE IF KeyBefore(Head(keys), x, y) THEN TRUE
    ELSE IF KeyBefore(Head(keys), y, x) THEN FALSE
    ELSE Before(Tail(keys), x, y)

\* the orders in which ORDER BY can deliver the rows: rows that tie on every
\* key come in an order the engine chooses
Orderings(rs, keys) ==
    { [i \in DOMAIN rs |-> rs[p[i]]] :
        p \in { q \in [DOMAIN rs -> DOMAIN rs] :
                  /\ \A i, j \in DOMAIN rs : q[i] = q[j] => i = j
                  /\ \A i, j \in DOMAIN rs :
                        i < j => ~Before(keys, rs[q[j]], rs[q[i]]) } }

\* LIMIT n
Limit(rs, n) == SubSeq(rs, 1, IF n < Len(rs) THEN n ELSE Len(rs))

\* the columns of the final SELECT of rank_professors
Project(rs) ==
    [i \in DOMAIN rs |->
        [ subject |-> rs[i].subject,
          class_num |-> rs[i].class_num,
          class_title |-> rs[i].class_title,
          instructor |-> rs[i].instructor,
          semester |-> rs[i].semester,
          A_rate |-> rs[i].A_rate,
          DFW_rate |-> rs[i].DFW_rate,
          total_students |-> rs[i].total_students ]]

\* a query that takes the first n rows before it sorts them
FinalSelectLimitFirst(cte, keys, n) ==
    { Project(sorted) : sorted \in Orderings(Limit(cte, n), keys) }

\* the final query over the CTE: ORDER BY the keys, then LIMIT n; the set holds
\* every list the engine can deliver
FinalSelect(cte, keys, n) ==
    { Project(Limit(sorted, n)) : sorted \in Orderings(cte, keys) }

\* params.get("polarity", "easy")
PolarityOf(params) ==
    IF "polarity" \in DOMAIN params THEN params["polarity"]
    ELSE PyStr(<<"e", "a", "s", "y">>)

-----------------------------------------------------------------------------
(* Inputs                                                                  *)

\* words per text
MaxWords == 3

\* members of the model's JSON object
MaxKeys == 2

\* the words the texts are made of
WORDS ==
    << <<"e", "a", "s", "y">>,
       <<"H", "a", "r", "d">>,
       <<"c", "s">>,
       <<"M", "A", "T", "H">>,
       <<"5", "8", "0">>,
       <<"5", "0", "0", "-", "l", "e", "v", "e", "l">>,
       <<"0", "-", "l", "e", "v", "e", "l">>,
       <<"l", "e", "v", "e", "l">>,
       <<"m", "l">>,
       <<"a", "i">>,
       <<"r", "e", "c", "e", "n", "t">>,
       <<"d", "e", "t", "a", "i", "l", "s">>,
       <<"y", "u">>,
       <<"-", "-", "e", "x", "p", "l", "a", "i", "n">>,
       <<",">> >>

\* the words of a text, joined by single spaces
RECURSIVE JoinWords(_)
JoinWords(ws) ==
    IF ws = << >> THEN << >>
    ELSE IF Len(ws) = 1 THEN ws[1]
    ELSE ws[1] \o <<" ">> \o JoinWords(Tail(ws))

SeqsUpTo(S, n) == UNION { [1..k -> S] : k \in 0..n }

\* longer texts: the three of tests/test_intent.py, one with a trigger that is
\* not the first word and "-explain" inside a word, and one with two polarity
\* words, a token that ends in "-level" after a second dash, and "300 level"
EXAMPLE_TEXTS ==
    { <<"e", "a", "s", "y", " ", "c", "s", " ", "5", "8", "0", " ", "r", "e", "c", "e", "n", "t", " ", "-", "-", "e", "x", "p", "l", "a", "i", "n">>,
      <<"s", "h", "o", "w", " ", "e", "a", "s", "y", " ", "m", "l", " ", "c", "o", "u", "r", "s", "e", "s", " ", "5", "0", "0", "-", "l", "e", "v", "e", "l">>,
      <<"d", "e", "t", "a", "i", "l", "s", " ", "c", "s", " ", "5", "8", "0", " ", "p", "r", "o", "f", " ", "y", "u">>,
      <<"N", "e", "w", "e", "r", " ", "S", "T", "A", "T", " ", "N", "o", "n", "-", "E", "x", "p", "l", "a", "i", "n", "e", "d">>,
      <<"t", "o", "u", "g", "h", " ", "4", "0", "0", "-", "5", "0", "0", "-", "l", "e", "v", "e", "l", " ", "3", "0", "0", " ", "l", "e", "v", "e", "l", " ", "c", "h", "i", "l", "l">> }

Texts == { JoinWords(ws) : ws \in SeqsUpTo(Range(WORDS), MaxWords) } \cup EXAMPLE_TEXTS

\* the texts sent to the model
LLMTexts ==
    { <<"e", "a", "s", "y">>, <<"n", "o", "t", " ", "s", "o", " ", "H", "a", "r", "d">>, <<"S", "T", "R", "I", "C", "T", "L", "Y">> }

\* the values json.loads can put under a key
JSON_VALUES ==
    { PyNone, PyBool(TRUE), PyBool(FALSE), PyInt(0), PyInt(500), PyFloat(5807),
      NonFinite(<<"n", "a", "n">>),
      PyStr(<< >>), PyStr(<<" ">>), PyStr(<<"H", "A", "R", "D">>), PyStr(<<" ", "C", "s", " ">>),
      PyList(<< >>),
      PyList(<< PyStr(<<"s", "t", "a", "t", "s">>), PyStr(<<" ", "M", "L", " ">>), PyInt(5), PyStr(<<"m", "l">>), PyStr(<<"w", "e", "b">>) >>),
      PyDict(1) }

JSON_KEYS ==
    { "polarity", "subject", "class_num", "keywords", "recent", "level",
      "instructor_like", "explain", "details", "extra" }

\* the JSON objects the model can reply with
Payloads ==
    UNION { [ks -> JSON_VALUES] :
              ks \in { s \in SUBSET JSON_KEYS : Cardinality(s) <= MaxKeys } }

EmptyDict == << >>

-----------------------------------------------------------------------------
(* The intent step: main_cli.get_intent / api.main.query_chat pick a parser *)

IntentInit ==
    /\ pc = "start"
    /\ \/ /\ use_llm = FALSE /\ user_text \in Texts
          /\ collaborator = "ok" /\ data = EmptyDict
       \/ /\ use_llm = TRUE /\ user_text \in LLMTexts
          /\ \/ collaborator = "ok" /\ data \in Payloads
             \/ collaborator \in {"no_client", "request_raises"} /\ data = EmptyDict
    /\ requests = 0
    /\ content = << >>
    /\ intent = EmptyDict
    /\ warehouse_exists = TRUE
    /\ warehouse = << >>
    /\ year_now = 0
    /\ ranked = << >>
    /\ top_n = 0
    /\ rows = << >>
    /\ log = << >>
    /\ con = "none"
    /\ calls = << >>
    /\ connections = << >>

\* intent.parse(user_text)
RuleParse ==
    /\ pc = "start"
    /\ ~use_llm
    /\ \E kwlist \in ListsOf(_extract_keywords(_tokenize(user_text))) :
          intent' = parse(user_text, kwlist)
    /\ pc' = "parsed"
    /\ UNCHANGED << calls, connections, use_llm, user_text, collaborator, content, requests, data, warehouse_exists,
                    warehouse, year_now, ranked, top_n, rows, log, con >>

\* a parse_with_llm that answers a failure of the service as it answers a
\* reply that is not JSON: with the intent normalized from {}
parse_with_llm_swallowing(outcome, reply, text) ==
    IF outcome # "ok"
    THEN [ pc |-> "parsed", requests |-> IF outcome = "no_client" THEN 0 ELSE 1,
           intent |-> LLMToDict(_normalize_intent_dict(EmptyDict, text)) ]
    ELSE IF NormalizeRaises(reply)
    THEN [ pc |-> "raised", requests |-> 1, intent |-> EmptyDict ]
    ELSE [ pc |-> "parsed", requests |-> 1,
           intent |-> LLMToDict(_normalize_intent_dict(reply, text)) ]

\* parse_with_llm(text) when the service behaves as `outcome` says and, if it
\* answers, replies with the JSON object `reply`: where the call ends
\* ("llm_failed": the service's exception leaves the function; "raised":
\* normalization raises; "parsed": a dict is returned), the requests it made
\* and the dict it returned
parse_with_llm(outcome, reply, text) ==
    IF outcome = "no_client"
    THEN [ pc |-> "llm_failed", requests |-> 0, intent |-> EmptyDict ]
    ELSE IF outcome = "request_raises"
    THEN [ pc |-> "llm_failed", requests |-> 1, intent |-> EmptyDict ]
    ELSE IF NormalizeRaises(reply)
    THEN [ pc |-> "raised", requests |-> 1, intent |-> EmptyDict ]
    ELSE [ pc |-> "parsed", requests |-> 1,
           intent |-> LLMToDict(_normalize_intent_dict(reply, text)) ]

\* llm_intent.parse_with_llm(user_text)
ParseWithLLM ==
    /\ pc = "start"
    /\ use_llm
    /\ \E r \in { parse_with_llm(collaborator, data, user_text) } :
          /\ pc' = r.pc
          /\ requests' = requests + r.requests
          /\ intent' = r.intent
    /\ UNCHANGED << calls, connections, use_llm, user_text, collaborator, content, data, warehouse_exists,
                    warehouse, year_now, ranked, top_n, rows, log, con >>

IntentNext == RuleParse \/ ParseWithLLM

SpecIntent == IntentInit /\ [][IntentNext]_vars

-----------------------------------------------------------------------------
(* Inputs of the compiler                                                  *)

\* rows in the warehouse
MaxRows == 2

\* largest top_n
MaxTopN == 2

\* keys of the params dict that are set
MaxParams == 2

\* the sections the warehouses are made of
SECTIONS ==
    { [ subject |-> <<"C", "S">>, class_num |-> <<"5", "8", "0">>,
        class_title |-> <<"Q", "u", "e", "r", "y", " ", "P", "r", "o", "c">>,
        instructor |-> <<"Y", "u", ",", " ", "C">>,
        semester |-> <<"F", "A", "2", "3">>, total_students |-> 30, A |-> 17, D |-> 1, F |-> 0,
        withdrawn |-> 1 ],
      [ subject |-> <<"C", "S">>, class_num |-> <<"5", "8", "0">>,
        class_title |-> <<"Q", "u", "e", "r", "y", " ", "P", "r", "o", "c">>,
        instructor |-> <<"S", "i", "n", "t", "o", "s", ",", " ", "S">>,
        semester |-> <<"S", "P", "2", "4">>, total_students |-> 31, A |-> 28, D |-> 0, F |-> 0,
        withdrawn |-> 0 ],
      [ subject |-> <<"C", "S">>, class_num |-> <<"5", "8", "0">>,
        class_title |-> <<"Q", "u", "e", "r", "y", " ", "P", "r", "o", "c">>,
        instructor |-> <<"Y", "u", ",", " ", "C">>,
        semester |-> <<"F", "A", "1", "9">>, total_students |-> 30, A |-> 17, D |-> 1, F |-> 0,
        withdrawn |-> 1 ],
      [ subject |-> <<"C", "S">>, class_num |-> <<"5", "8", "0">>,
        class_title |-> <<"Q", "u", "e", "r", "y", " ", "P", "r", "o", "c">>,
        instructor |-> <<"Y", "u", ",", " ", "C">>,
        semester |-> <<"F", "A", "2", "X">>, total_students |-> 30, A |-> 17, D |-> 1, F |-> 0,
        withdrawn |-> 1 ],
      [ subject |-> <<"S", "T", "A", "T">>, class_num |-> <<"5", "9", "X">>,
        class_title |-> <<"M", "a", "c", "h", "i", "n", "e", " ", "L", "e", "a", "r", "n">>,
        instructor |-> <<"S", "u", "n", ",", " ", "Y">>,
        semester |-> <<"F", "A", "2", "0", "2", "3">>, total_students |-> 60, A |-> 34, D |-> 3, F |-> 2,
        withdrawn |-> 1 ],
      [ subject |-> <<"C", "S">>, class_num |-> <<"4", "1", "2">>,
        class_title |-> <<"D", "a", "t", "a", " ", "M", "i", "n", "i", "n", "g">>,
        instructor |-> <<"Y", "u", ",", " ", "C">>,
        semester |-> <<"S", "P", "2", "4">>, total_students |-> 60, A |-> 34, D |-> 2, F |-> 1,
        withdrawn |-> 1 ],
      [ subject |-> <<"C", "S">>, class_num |-> <<"5", "8", "0">>,
        class_title |-> <<"Q", "u", "e", "r", "y", " ", "P", "r", "o", "c">>,
        instructor |-> <<"K", "a", "y", ",", " ", "O">>,
        semester |-> <<"S", "P", "2", "4">>, total_students |-> 5, A |-> 4, D |-> 0, F |-> 0,
        withdrawn |-> 0 ],
      [ subject |-> <<"C", "S">>, class_num |-> <<"5", "8", "0">>,
        class_title |-> <<"Q", "u", "e", "r", "y", " ", "P", "r", "o", "c">>,
        instructor |-> <<"Z", "e", "d", ",", " ", "A">>,
        semester |-> <<"S", "P", "2", "4">>, total_students |-> 0, A |-> 0, D |-> 0, F |-> 0,
        withdrawn |-> 0 ] }

\* a warehouse: some of the sections, each once, in file order
Warehouses ==
    { w \in SeqsUpTo(SECTIONS, MaxRows) : \A i, j \in DOMAIN w : w[i] = w[j] => i = j }

StrList(q) == PyList([i \in DOMAIN q |-> PyStr(q[i])])

\* the values of the params that rank_professors reads
PARAM_VALUES ==
    [ polarity |-> { PyStr(<<"e", "a", "s", "y">>), PyStr(<<"h", "a", "r", "d">>), PyStr(<<"n", "e", "u", "t", "r", "a", "l">>) },
      subject |-> { PyStr(<<"c", "s">>) },
      class_num |-> { PyStr(<<"5", "8", "0">>), PyStr(<<"4", "1", "2">>) },
      level |-> { PyInt(0), PyInt(500) },
      keywords |-> { StrList(<< <<"m", "l">> >>), StrList(<< <<"b", "i", "o">> >>),
                     StrList(<< <<"d", "a", "t", "a">>, <<"m", "l">> >>) },
      instructor_like |-> { PyStr(<<"y", "u">>), PyStr(<<"y", "_">>) },
      recent |-> { PyBool(TRUE) } ]

\* the params dicts: some of the keys, each with one of its values
Params ==
    UNION { { f \in [ks -> UNION { PARAM_VALUES[k] : k \in ks }] :
                \A k \in ks : f[k] \in PARAM_VALUES[k] } :
            ks \in { s \in SUBSET DOMAIN PARAM_VALUES : Cardinality(s) <= MaxParams } }

\* datetime.now().year
YEARS == { 2026, 2029 }

-----------------------------------------------------------------------------
(* The query step: rank_professors(params, top_n)                          *)

RankInit ==
    /\ pc = "params"
    /\ use_llm = FALSE
    /\ user_text = << >>
    /\ collaborator = "ok"
    /\ requests = 0
    /\ content = << >>
    /\ data = EmptyDict
    /\ intent \in Params
    /\ warehouse_exists \in BOOLEAN
    /\ warehouse \in (IF warehouse_exists THEN Warehouses ELSE { << >> })
    /\ year_now \in YEARS
    /\ ranked = << >>
    /\ top_n = 0
    /\ rows = << >>
    /\ log = << >>
    /\ con = "none"
    /\ calls = << >>
    /\ connections = << >>

\* rank_professors(intent, n): an empty list when the warehouse file is
\* missing, else the rows of the final query
RankProfessors ==
    /\ pc = "params"
    /\ ranked' = IF warehouse_exists THEN Ranked(warehouse, intent, year_now) ELSE << >>
    /\ \E n \in 0..MaxTopN :
          /\ top_n' = n
          /\ IF ~warehouse_exists THEN rows' = << >>
             ELSE rows' \in FinalSelect(ranked', _order_clause(PolarityOf(intent)), n)
    /\ log' = IF warehouse_exists THEN log \o << "info" >> ELSE log \o << "warning" >>
    /\ con' = IF warehouse_exists THEN "closed" ELSE "none"
    /\ pc' = "ranked"
    /\ UNCHANGED << calls, connections, use_llm, user_text, collaborator, content, requests, data, intent,
                    warehouse_exists, warehouse, year_now >>

RankNext == RankProfessors

SpecRank == RankInit /\ [][RankNext]_vars

-----------------------------------------------------------------------------
(* details_section: the per-semester drill-down                            *)

\* the LIMIT of the details query
DETAILS_LIMIT == 20

\* rows in the warehouse of a details request
MaxSections == 22

\* the i-th section of a long history of CS 580: the years come in no order,
\* sections 2 and 3 are of the same year, section 5 has a semester code that
\* does not decode, section 6 is below the enrollment guard and every fourth
\* section is taught by somebody else
DetailSection(i) ==
    LET k == IF i = 3 THEN 2 ELSE i
        yy == (7 * k) % 23
    IN  [ subject |-> <<"C", "S">>, class_num |-> <<"5", "8", "0">>,
          class_title |-> <<"Q", "u", "e", "r", "y", " ", "P", "r", "o", "c">>,
          instructor |-> IF i % 4 = 0 THEN <<"S", "i", "n", "t", "o", "s", ",", " ", "S">>
                         ELSE <<"Y", "u", ",", " ", "C">>,
          semester |-> (IF i % 2 = 0 THEN <<"F", "A">> ELSE <<"S", "P">>)
                       \o (IF i = 5 THEN <<"2", "X">>
                           ELSE << DIGITS[(yy \div 10) + 1], DIGITS[(yy % 10) + 1] >>),
          total_students |-> IF i = 6 THEN 5 ELSE 30 + i,
          A |-> IF i = 6 THEN 4 ELSE 17,
          D |-> 1, F |-> 0, withdrawn |-> 1 ]

DetailFile == [i \in 1..MaxSections |-> DetailSection(i)]

\* a warehouse: a run of consecutive sections of the history
DetailWarehouses == { SubSeq(DetailFile, a, b) : a \in 1..3, b \in 0..MaxSections }

\* what main_cli.handle_text passes: a value of the intent, or ""
DETAIL_ARGS ==
    [ subject |-> { << >>, <<"c", "s">> },
      class_num |-> { << >>, <<"5", "8", "0">> },
      instructor_like |-> { << >>, <<"y", "u">> } ]

\* the params dict details_section builds from its three arguments
DetailsParams(subject, class_num, instructor_like) ==
    [ subject |-> PyStr(subject), class_num |-> PyStr(class_num),
      instructor_like |-> PyStr(instructor_like) ]

\* ORDER BY <decoded year> DESC
DetailsOrder == << <<"year", "DESC">> >>

\* ORDER BY over the rows numbered by S: the engine delivers first any row that
\* no other row sorts before, then orders the rest
RECURSIVE OrderBy(_, _, _)
OrderBy(rs, S, keys) ==
    IF S = {} THEN { << >> }
    ELSE UNION { { << rs[i] >> \o rest : rest \in OrderBy(rs, S \ {i}, keys) } :
                   i \in { m \in S : \A j \in S : ~Before(keys, rs[j], rs[m]) } }

\* ROUND(x, 1) of a rate that is not negative: the nearest tenth, a half
\* rounding up
Round1(x) == Ratio((20 * x.n + x.d) \div (2 * x.d), 10)

\* the columns of the final SELECT of details_section
DetailsProject(rs) ==
    [i \in DOMAIN rs |->
        [ semester |-> rs[i].semester,
          subject |-> rs[i].subject,
          class_num |-> rs[i].class_num,
          class_title |-> rs[i].class_title,
          instructor |-> rs[i].instructor,
          total_students |-> rs[i].total_students,
          A_rate |-> Round1(rs[i].A_rate),
          DFW_rate |-> Round1(rs[i].DFW_rate) ]]

\* a details query without its LIMIT
DetailsSelectNoLimit(cte) ==
    { DetailsProject(sorted) : sorted \in OrderBy(cte, DOMAIN cte, DetailsOrder) }

\* the final query over the CTE `s`: every list the engine can deliver
DetailsSelect(cte) ==
    { DetailsProject(Limit(sorted, DETAILS_LIMIT)) :
        sorted \in OrderBy(cte, DOMAIN cte, DetailsOrder) }

DetailsInit ==
    /\ pc = "details_params"
    /\ use_llm = FALSE
    /\ user_text = << >>
    /\ collaborator = "ok"
    /\ requests = 0
    /\ content = << >>
    /\ data = EmptyDict
    /\ \E s \in DETAIL_ARGS.subject, c \in DETAIL_ARGS.class_num,
          n \in DETAIL_ARGS.instructor_like : intent = DetailsParams(s, c, n)
    /\ warehouse_exists \in BOOLEAN
    /\ warehouse \in (IF warehouse_exists THEN DetailWarehouses ELSE { << >> })
    /\ year_now \in YEARS
    /\ ranked = << >>
    /\ top_n \in 0..MaxTopN
    /\ rows = << >>
    /\ log = << >>
    /\ con = "none"
    /\ calls = << >>
    /\ connections = << >>

\* details_section(subject, class_num, instructor_like): an empty list when
\* the warehouse file is missing, else the rows of the final query; top_n is
\* what the caller would have asked of rank_professors, and plays no part
DetailsSection ==
    /\ pc = "details_params"
    /\ ranked' = IF warehouse_exists THEN Ranked(warehouse, intent, year_now) ELSE << >>
    /\ IF ~warehouse_exists THEN rows' = << >>
       ELSE rows' \in DetailsSelect(ranked')
    /\ con' = IF warehouse_exists THEN "closed" ELSE "none"
    /\ pc' = "detailed"
    /\ UNCHANGED << calls, connections, use_llm, user_text, collaborator, content, requests, data, intent,
                    warehouse_exists, warehouse, year_now, top_n, log >>

DetailsNext == DetailsSection

SpecDetails == DetailsInit /\ [][DetailsNext]_vars

-----------------------------------------------------------------------------
(* rank_professors called twice on the same intent, top_n and warehouse    *)

\* a section that ties on every ORDER BY key with the one Yu taught in FA23
TWIN ==
    [ subject |-> <<"C", "S">>, class_num |-> <<"5", "8", "0">>,
      class_title |-> <<"Q", "u", "e", "r", "y", " ", "P", "r", "o", "c">>,
      instructor |-> <<"S", "i", "n", "t", "o", "s", ",", " ", "S">>,
      semester |-> <<"S", "P", "2", "3">>, total_students |-> 30, A |-> 17, D |-> 2, F |-> 0,
      withdrawn |-> 0 ]

\* warehouses that hold the twin as well
TwinWarehouses ==
    { w \in SeqsUpTo(SECTIONS \cup {TWIN}, MaxRows) :
        /\ \A i, j \in DOMAIN w : w[i] = w[j] => i = j
        /\ \E i \in DOMAIN w : w[i] = TWIN }

TwiceInit ==
    /\ pc = "params"
    /\ use_llm = FALSE
    /\ user_text = << >>
    /\ collaborator = "ok"
    /\ requests = 0
    /\ content = << >>
    /\ data = EmptyDict
    /\ intent \in Params
    /\ warehouse_exists \in BOOLEAN
    /\ warehouse \in (IF warehouse_exists THEN Warehouses \cup TwinWarehouses ELSE { << >> })
    /\ year_now \in YEARS
    /\ ranked = << >>
    /\ top_n = 0
    /\ rows = << >>
    /\ log = << >>
    /\ con = "none"
    /\ calls = << >>
    /\ connections = << >>

\* the second call: the same params, top_n and warehouse file, at a time that
\* is no earlier than the first call's
RankAgain ==
    /\ pc = "ranked"
    /\ year_now' \in { y \in YEARS : y >= year_now }
    /\ ranked' = IF warehouse_exists THEN Ranked(warehouse, intent, year_now') ELSE << >>
    /\ IF ~warehouse_exists THEN rows' = << >>
       ELSE rows' \in FinalSelect(ranked', _order_clause(PolarityOf(intent)), top_n)
    /\ log' = IF warehouse_exists THEN log \o << "info" >> ELSE log \o << "warning" >>
    /\ con' = IF warehouse_exists THEN "closed" ELSE "none"
    /\ pc' = "ranked_again"
    /\ UNCHANGED << calls, connections, use_llm, user_text, collaborator, content, requests, data, intent,
                    warehouse_exists, warehouse, top_n >>

TwiceNext == RankProfessors \/ RankAgain

SpecTwice == TwiceInit /\ [][TwiceNext]_vars

-----------------------------------------------------------------------------
(* The compiler: either operation, on a warehouse that may be missing      *)

CompilerInit == RankInit \/ DetailsInit

CompilerNext == RankProfessors \/ DetailsSection

SpecCompiler == CompilerInit /\ [][CompilerNext]_vars

-----------------------------------------------------------------------------
(* main_cli.get_intent: the model parser when selected, with the rule parser *)
(* as its fallback                                                          *)

\* a get_intent without the try block, as api.main.query_chat calls the
\* parsers: what parse_with_llm raises leaves the function
get_intent_unguarded(selected, outcome, reply, text, kwlist) ==
    IF ~selected
    THEN [ pc |-> "got_rule", requests |-> 0, intent |-> parse(text, kwlist) ]
    ELSE LET r == parse_with_llm(outcome, reply, text)
         IN  IF r.pc = "parsed"
             THEN [ pc |-> "got_llm", requests |-> r.requests, intent |-> r.intent ]
             ELSE r

\* get_intent(text) with USE_LLM_INTENT == "1" iff selected, the service
\* behaving as `outcome` says and replying `reply`, and list(found) = kwlist in
\* the rule parser: how the call ends ("got_rule", "got_llm", or
\* "got_fallback" after parse_with_llm raised), the requests made and the
\* dict returned
get_intent(selected, outcome, reply, text, kwlist) ==
    IF ~selected
    THEN [ pc |-> "got_rule", requests |-> 0, intent |-> parse(text, kwlist) ]
    ELSE LET r == parse_with_llm(outcome, reply, text)
         IN  IF r.pc = "parsed"
             THEN [ pc |-> "got_llm", requests |-> r.requests, intent |-> r.intent ]
             ELSE [ pc |-> "got_fallback", requests |-> r.requests,
                    intent |-> parse(text, kwlist) ]

CLIInit ==
    /\ pc = "start"
    /\ \/ /\ use_llm = FALSE /\ user_text \in Texts
          /\ collaborator = "ok" /\ data = EmptyDict
       \/ /\ use_llm = TRUE
          /\ \/ collaborator = "ok" /\ user_text \in LLMTexts /\ data \in Payloads
             \/ /\ collaborator \in {"no_client", "request_raises"}
                /\ user_text \in Texts /\ data = EmptyDict
    /\ requests = 0
    /\ content = << >>
    /\ intent = EmptyDict
    /\ warehouse_exists = TRUE
    /\ warehouse = << >>
    /\ year_now = 0
    /\ ranked = << >>
    /\ top_n = 0
    /\ rows = << >>
    /\ log = << >>
    /\ con = "none"
    /\ calls = << >>
    /\ connections = << >>

\* main_cli.get_intent(user_text)
GetIntent ==
    /\ pc = "start"
    /\ \E kwlist \in ListsOf(_extract_keywords(_tokenize(user_text))) :
          \E r \in { get_intent(use_llm, collaborator, data, user_text, kwlist) } :
             /\ pc' = r.pc
             /\ requests' = requests + r.requests
             /\ intent' = r.intent
    /\ UNCHANGED << calls, connections, use_llm, user_text, collaborator, content, data, warehouse_exists,
                    warehouse, year_now, ranked, top_n, rows, log, con >>

CLINext == GetIntent

SpecCLI == CLIInit /\ [][CLINext]_vars

-----------------------------------------------------------------------------
(* parse_with_llm from the text of the reply on: _extract_json, json.loads  *)

\* text.find(c) and text.rfind(c), counted from 1; 0 when c is not in text
Find(text, c) ==
    IF \E i \in DOMAIN text : text[i] = c
    THEN CHOOSE i \in DOMAIN text : text[i] = c /\ \A j \in 1..(i - 1) : text[j] # c
    ELSE 0

RFind(text, c) ==
    IF \E i \in DOMAIN text : text[i] = c
    THEN CHOOSE i \in DOMAIN text : text[i] = c /\ \A j \in (i + 1)..Len(text) : text[j] # c
    ELSE 0

\* an _extract_json that ends the span at the first '}'
_extract_json_first_brace(text) ==
    LET start == Find(text, "{")
        end == Find(text, "}")
    IN  IF text = << >> THEN <<"{", "}">>
        ELSE IF start = 0 \/ end = 0 \/ end <= start THEN <<"{", "}">>
        ELSE SubSeq(text, start, end)

\* the substring from the first '{' to the last '}', or "{}"
_extract_json(text) ==
    LET start == Find(text, "{")
        end == RFind(text, "}")
    IN  IF text = << >> THEN <<"{", "}">>
        ELSE IF start = 0 \/ end = 0 \/ end <= start THEN <<"{", "}">>
        ELSE SubSeq(text, start, end)

\* the JSON texts of the model that json.loads decodes, with their values;
\* json.loads raises on every other span of a reply of the model
JSON_DOCUMENTS ==
    { [ text |-> <<"{", "}">>,
        value |-> EmptyDict ],
      [ text |-> <<"{", "\"", "p", "o", "l", "a", "r", "i", "t", "y", "\"", ":", " ", "\"", "h", "a", "r", "d", "\"", "}">>,
        value |-> ("polarity" :> PyStr(<<"h", "a", "r", "d">>)) ],
      [ text |-> <<"{", "\"", "l", "e", "v", "e", "l", "\"", ":", " ", "5", "0", "0", "}">>,
        value |-> ("level" :> PyInt(500)) ],
      [ text |-> <<"{", "\"", "c", "l", "a", "s", "s", "_", "n", "u", "m", "\"", ":", " ", "N", "a", "N", "}">>,
        value |-> ("class_num" :> NonFinite(<<"n", "a", "n">>)) ] }

JsonLoadsRaises(s) == \A doc \in JSON_DOCUMENTS : doc.text # s

JsonLoads(s) == (CHOOSE doc \in JSON_DOCUMENTS : doc.text = s).value

\* raw: json.loads(json_str), or {} when it raises
DecodeReply(reply_text) ==
    LET json_str == _extract_json(reply_text)
    IN  IF JsonLoadsRaises(json_str) THEN EmptyDict ELSE JsonLoads(json_str)

\* the texts the model may reply with
RAW_REPLIES ==
    { << >>,
      <<"n", "o", " ", "j", "s", "o", "n", " ", "h", "e", "r", "e">>,
      <<"}", "{">>,
      <<"{">>,
      <<"{", "n", "o", "t", " ", "j", "s", "o", "n", "}">>,
      <<"S", "u", "r", "e", ":", " ", "{", "\"", "p", "o", "l", "a", "r", "i", "t", "y", "\"", ":", " ", "\"", "h", "a", "r", "d", "\"", "}", " ", "o", "k">>,
      <<"{", "\"", "l", "e", "v", "e", "l", "\"", ":", " ", "5", "0", "0", "}">>,
      <<"{", "\"", "l", "e", "v", "e", "l", "\"", ":", " ", "5", "0", "0", "}", " ", "o", "r", " ", "{", "\"", "l", "e", "v", "e", "l", "\"", ":", " ", "4", "0", "0", "}">>,
      <<"{", "\"", "c", "l", "a", "s", "s", "_", "n", "u", "m", "\"", ":", " ", "N", "a", "N", "}">>,
      <<"{", "'", "l", "e", "v", "e", "l", "'", ":", " ", "5", "0", "0", "}">> }

ReplyInit ==
    /\ pc = "start"
    /\ use_llm = TRUE
    /\ user_text \in LLMTexts \cup EXAMPLE_TEXTS
    /\ collaborator = "ok"
    /\ requests = 0
    /\ content \in RAW_REPLIES
    /\ data = EmptyDict
    /\ intent = EmptyDict
    /\ warehouse_exists = TRUE
    /\ warehouse = << >>
    /\ year_now = 0
    /\ ranked = << >>
    /\ top_n = 0
    /\ rows = << >>
    /\ log = << >>
    /\ con = "none"
    /\ calls = << >>
    /\ connections = << >>

\* parse_with_llm(user_text), the model having replied with the text content
ParseReply ==
    /\ pc = "start"
    /\ data' = DecodeReply(content)
    /\ \E r \in { parse_with_llm(collaborator, data', user_text) } :
          /\ pc' = r.pc
          /\ requests' = requests + r.requests
          /\ intent' = r.intent
    /\ UNCHANGED << calls, connections, use_llm, user_text, collaborator, content, warehouse_exists,
                    warehouse, year_now, ranked, top_n, rows, log, con >>

ReplyNext == ParseReply

SpecReply == ReplyInit /\ [][ReplyNext]_vars
-----------------------------------------------------------------------------
(* rank_professors and details_section step by step, called by concurrent  *)
(* requests: the connection each call makes, its query and its close        *)

\* the requests in flight (FastAPI serves its synchronous endpoints from a
\* thread pool; the CLI is one caller)
Callers == { "request_1", "request_2" }

\* calls one caller makes, one after the other
MaxRuns == 2

\* the parquet file of tests/test_rank_dummy.py: Yu's and Sintos's sections
CallWarehouse ==
    << CHOOSE s \in SECTIONS : s.instructor = <<"Y", "u", ",", " ", "C">>
                                  /\ s.semester = <<"F", "A", "2", "3">>,
       CHOOSE s \in SECTIONS : s.instructor = <<"S", "i", "n", "t", "o", "s", ",", " ", "S">> >>

\* the arguments of a call: rank_professors(params, top_n) or
\* details_section(subject, class_num, instructor_like)
CALL_ARGS ==
    { [ kind |-> "rank", params |-> p, top_n |-> MaxTopN ] :
        p \in { q \in Params : DOMAIN q \subseteq { "polarity" }
                                /\ PolarityOf(q) # PyStr(<<"n", "e", "u", "t", "r", "a", "l">>)
                                /\ ("polarity" \in DOMAIN q => PolarityOf(q) # PyStr(<<"e", "a", "s", "y">>)) } }
    \cup { [ kind |-> "details", params |-> DetailsParams(a, <<"5", "8", "0">>, << >>), top_n |-> 0 ] :
             a \in DETAIL_ARGS.subject }

\* a caller that has not called yet
NoCall ==
    [ pc |-> "idle", kind |-> "none", params |-> EmptyDict, top_n |-> 0,
      con |-> 0, rows |-> << >>, runs |-> 0 ]

\* a module-level connection that every call would reuse
connect_shared(conns, caller) ==
    IF conns # << >> THEN conns
    ELSE Append(conns, [ owner |-> caller, open |-> TRUE ])

\* duckdb.connect(): a new in-memory database, owned by the call that made it
connect(conns, caller) == Append(conns, [ owner |-> caller, open |-> TRUE ])

\* con.close() after the query only, without the finally
close_on_success_only(conns, id, query_raised) ==
    IF query_raised THEN conns ELSE [conns EXCEPT ![id].open = FALSE]

\* try: con.execute(sql).df()  finally: con.close()
close_in_finally(conns, id, query_raised) == [conns EXCEPT ![id].open = FALSE]

\* the lists the query of a call can deliver from the warehouse file
QueryResults(call, table, now) ==
    IF call.kind = "rank"
    THEN FinalSelect(Ranked(table, call.params, now),
                     _order_clause(PolarityOf(call.params)), call.top_n)
    ELSE DetailsSelect(Ranked(table, call.params, now))

CallsInit ==
    /\ pc = "serving"
    /\ use_llm = FALSE
    /\ user_text = << >>
    /\ collaborator = "ok"
    /\ requests = 0
    /\ content = << >>
    /\ data = EmptyDict
    /\ intent = EmptyDict
    /\ warehouse_exists \in BOOLEAN
    /\ warehouse = (IF warehouse_exists THEN CallWarehouse ELSE << >>)
    /\ year_now \in YEARS
    /\ ranked = << >>
    /\ top_n = 0
    /\ rows = << >>
    /\ log = << >>
    /\ con = "none"
    /\ calls = [c \in Callers |-> NoCall]
    /\ connections = << >>

\* a caller calls rank_professors or details_section
Begin(c) ==
    /\ calls[c].pc \in { "idle", "returned", "raised" }
    /\ calls[c].runs < MaxRuns
    /\ \E a \in CALL_ARGS :
          calls' = [calls EXCEPT ![c] =
                       [ pc |-> "called", kind |-> a.kind, params |-> a.params,
                         top_n |-> a.top_n, con |-> 0, rows |-> << >>,
                         runs |-> calls[c].runs + 1 ]]
    /\ UNCHANGED << connections, log, pc, use_llm, user_text, collaborator, content, requests,
                    data, intent, warehouse_exists, warehouse, year_now, ranked, top_n,
                    rows, con >>

\* the guard on the warehouse file, the SQL, the log line, duckdb.connect()
Enter(c) ==
    /\ calls[c].pc = "called"
    /\ IF ~warehouse_exists
       THEN /\ calls' = [calls EXCEPT ![c].pc = "returned"]
            /\ connections' = connections
       ELSE /\ connections' = connect(connections, c)
            /\ calls' = [calls EXCEPT ![c].pc = "connected",
                                      ![c].con = Len(connections')]
    /\ log' = IF calls[c].kind # "rank" THEN log
              ELSE IF warehouse_exists THEN log \o << "info" >> ELSE log \o << "warning" >>
    /\ UNCHANGED << pc, use_llm, user_text, collaborator, content, requests,
                    data, intent, warehouse_exists, warehouse, year_now, ranked, top_n,
                    rows, con >>

\* con.execute(sql).df() delivers the rows
Execute(c) ==
    /\ calls[c].pc = "connected"
    /\ connections[calls[c].con].open
    /\ \E r \in QueryResults(calls[c], warehouse, year_now) :
          calls' = [calls EXCEPT ![c].pc = "executed", ![c].rows = r]
    /\ UNCHANGED << connections, log, pc, use_llm, user_text, collaborator, content, requests,
                    data, intent, warehouse_exists, warehouse, year_now, ranked, top_n,
                    rows, con >>

\* con.execute(sql).df() raises: the file cannot be read, the SQL does not
\* parse, the connection is closed
QueryRaises(c) ==
    /\ calls[c].pc = "connected"
    /\ calls' = [calls EXCEPT ![c].pc = "failing"]
    /\ UNCHANGED << connections, log, pc, use_llm, user_text, collaborator, content, requests,
                    data, intent, warehouse_exists, warehouse, year_now, ranked, top_n,
                    rows, con >>

\* the finally clause, then the return of the rows or the exception going on
\* to the caller
Leave(c) ==
    /\ calls[c].pc \in { "executed", "failing" }
    /\ connections' = close_in_finally(connections, calls[c].con, calls[c].pc = "failing")
    /\ calls' = [calls EXCEPT ![c].pc = IF calls[c].pc = "failing" THEN "raised"
                                        ELSE "returned"]
    /\ UNCHANGED << log, pc, use_llm, user_text, collaborator, content, requests,
                    data, intent, warehouse_exists, warehouse, year_now, ranked, top_n,
                    rows, con >>

CallsNext ==
    \E c \in Callers : Begin(c) \/ Enter(c) \/ Execute(c) \/ QueryRaises(c) \/ Leave(c)

SpecCalls == CallsInit /\ [][CallsNext]_vars


-----------------------------------------------------------------------------
(* Properties of the two intent parsers *)

\* the nine fields of an intent dict
INTENT_KEYS ==
    { "polarity", "subject", "class_num", "keywords", "recent", "level",
      "instructor_like", "explain", "details" }

\* the tags the rule-based parser may emit
RULE_TAGS ==
    { <<"m", "l">>, <<"a", "i">>, <<"d", "a", "t", "a">>, <<"n", "l", "p">>,
      <<"q", "u", "e", "r", "y">> }

RuleParsed == pc = "parsed" /\ ~use_llm

LLMParsed == pc = "parsed" /\ use_llm

C2_NormalizeNeverRaises ==
    use_llm =>
       /\ pc # "raised"
       /\ pc = "parsed" =>
             /\ intent.polarity \in { PyStr(<<"e", "a", "s", "y">>),
                                      PyStr(<<"h", "a", "r", "d">>) }
             /\ \/ intent.subject = PyNone
                \/ /\ IsStr(intent.subject)
                   /\ intent.subject.v # << >>
                   /\ Upper(intent.subject.v) = intent.subject.v
             /\ \/ intent.class_num = PyNone
                \/ IsStr(intent.class_num) /\ intent.class_num.v # << >>
             /\ IsList(intent.keywords)
             /\ \A i \in DOMAIN intent.keywords.v :
                   /\ IsStr(intent.keywords.v[i])
                   /\ intent.keywords.v[i].v \in LLM_KEYWORDS
                   /\ \A j \in DOMAIN intent.keywords.v :
                         i < j => StrLess(intent.keywords.v[i].v, intent.keywords.v[j].v)
             /\ \A f \in { "recent", "explain", "details" } : intent[f].t = "bool"
             /\ intent.level = PyNone \/ intent.level.t = "int"
             /\ \/ intent.instructor_like = PyNone
                \/ /\ IsStr(intent.instructor_like)
                   /\ intent.instructor_like.v # << >>
                   /\ Lower(intent.instructor_like.v) = intent.instructor_like.v

-----------------------------------------------------------------------------
(* Properties of rank_professors *)

\* rank_professors has returned the result of its query
RankReturned == pc = "ranked" /\ warehouse_exists

\* the warehouse rows as the query projects them, had no filter applied
Sections == { Project(BaseSelect(warehouse))[i] : i \in DOMAIN warehouse }

Returned == { rows[i] : i \in DOMAIN rows }

\* top_n does not cut the result short
NoCut == top_n >= Len(warehouse)

IsHard == Get(intent, "polarity") = PyStr(<<"h", "a", "r", "d">>)

\* x has to come before y in the order the polarity fixes: the four keys in
\* turn, a year that does not decode after one that does
MustPrecede(hard, x, y) ==
    LET yx == _semester_year_sql(x.semester)
        yy == _semester_year_sql(y.semester)
        k1(a, b) == IF hard THEN RatioLess(b.DFW_rate, a.DFW_rate)
                            ELSE RatioLess(b.A_rate, a.A_rate)
        k2(a, b) == IF hard THEN RatioLess(a.A_rate, b.A_rate)
                            ELSE RatioLess(a.DFW_rate, b.DFW_rate)
        k3(a, b) == a.total_students > b.total_students
        k4x == ~yx.null /\ (yy.null \/ yx.v > yy.v)
    IN  \/ k1(x, y)
        \/ /\ ~k1(y, x)
           /\ \/ k2(x, y)
              \/ /\ ~k2(y, x)
                 /\ \/ k3(x, y)
                    \/ ~k3(y, x) /\ k4x

\* the two sections of the example: A/total 17/30 with DFW 2/30, and 28/31
\* with DFW 0
IsSection17of30(x) ==
    /\ x.total_students = 30
    /\ x.A_rate = Ratio(1700, 30)
    /\ x.DFW_rate = Ratio(200, 30)

IsSection28of31(x) ==
    /\ x.total_students = 31
    /\ x.A_rate = Ratio(2800, 31)
    /\ x.DFW_rate = Ratio(0, 31)

\* C4: the rows come in the order the polarity fixes: for "hard", DFW_rate
\* descending, A_rate ascending, total_students descending, decoded year
\* descending; for any other or no polarity, A_rate descending, DFW_rate
\* ascending, total_students descending, decoded year descending; a year that
\* does not decode is last within ties.  Of the 17/30 and the 28/31 section,
\* "hard" returns the 17/30 one first and every other polarity the 28/31 one.
C4_OrderByPolarity ==
    RankReturned =>
       \A i, j \in DOMAIN rows :
          i < j =>
             /\ ~MustPrecede(IsHard, rows[j], rows[i])
             /\ IsSection17of30(rows[i]) /\ IsSection28of31(rows[j]) => IsHard
             /\ IsSection28of31(rows[i]) /\ IsSection17of30(rows[j]) => ~IsHard

\* C4 witness: a "hard" query over the two sections of the example, stored
\* the other way round, returned the 17/30 section first
C4_Witness ==
    /\ RankReturned
    /\ IsHard
    /\ Len(warehouse) = 2
    /\ warehouse[1].A = 28
    /\ Len(rows) = 2
    /\ IsSection17of30(rows[1])
    /\ IsSection28of31(rows[2])

\* C5: the limit is applied after ordering: the result holds
\* min(top_n, number of matching rows) matching rows, and no matching row left
\* out has to come before a row returned.
C5_LimitAfterOrder ==
    RankReturned =>
       LET matching == Project(ranked)
           matches == { matching[i] : i \in DOMAIN matching }
       IN  /\ Len(rows) = IF top_n < Len(matching) THEN top_n ELSE Len(matching)
           /\ Cardinality(Returned) = Len(rows)
           /\ Returned \subseteq matches
           /\ \A x \in matches \ Returned :
                 \A i \in DOMAIN rows : ~MustPrecede(IsHard, x, rows[i])

\* C5 witness: two rows match, top_n is 1, and the row returned is the one
\* the warehouse stores second
C5_Witness ==
    /\ RankReturned
    /\ top_n = 1
    /\ Len(ranked) = 2
    /\ rows = Project(<< ranked[2] >>)

\* the filters as the intent's fields describe them, for a candidate row x

IsSet(key) == Get(intent, key) # PyNone

SubjectOk(x) ==
    IsSet("subject") => Upper(x.subject) = Upper(Get(intent, "subject").v)

ClassNumOk(x) ==
    IsSet("class_num") => x.class_num = Get(intent, "class_num").v

\* the course number parses as an integer in [level, level + 99]
LevelOk(x) ==
    IsSet("level") =>
       /\ IsDigitStr(x.class_num)
       /\ DigitsToInt(x.class_num) >= Get(intent, "level").v
       /\ DigitsToInt(x.class_num) <= Get(intent, "level").v + 99

\* the phrase test of one keyword family on a lowercased title; the families
\* without a phrase test match nothing
FamilyMatches(k, title) ==
    CASE k = <<"m", "l">> ->
            \/ Contains(<<"m", "a", "c", "h", "i", "n", "e">>, title)
            \/ Contains(<<"l", "e", "a", "r", "n", "i", "n", "g">>, title)
            \/ Contains(<<"a", "i">>, title)
      [] k = <<"a", "i">> ->
            \/ Contains(<<"a", "r", "t", "i", "f", "i", "c", "i", "a", "l">>, title)
            \/ Contains(<<"i", "n", "t", "e", "l", "l", "i", "g", "e", "n", "c", "e">>, title)
            \/ Contains(<<"a", "i">>, title)
      [] k = <<"d", "a", "t", "a">> -> Contains(<<"d", "a", "t", "a">>, title)
      [] k = <<"n", "l", "p">> ->
            \/ Contains(<<"l", "a", "n", "g", "u", "a", "g", "e">>, title)
            \/ Contains(<<"n", "l", "p">>, title)
            \/ Contains(<<"t", "e", "x", "t">>, title)
      [] k = <<"q", "u", "e", "r", "y">> ->
            \/ Contains(<<"q", "u", "e", "r", "y">>, title)
            \/ Contains(<<"r", "e", "t", "r", "i", "e", "v", "a", "l">>, title)
            \/ Contains(<<"i", "n", "f", "o", "r", "m", "a", "t", "i", "o", "n">>, title)
      [] OTHER -> FALSE

HasKeywords == IsSet("keywords") /\ Get(intent, "keywords").v # << >>

KeywordsOk(x) ==
    HasKeywords =>
       \E i \in DOMAIN Get(intent, "keywords").v :
          FamilyMatches(Get(intent, "keywords").v[i].v, Lower(x.class_title))

InstructorOk(x) ==
    IsSet("instructor_like") =>
       Contains(Lower(Get(intent, "instructor_like").v), Lower(x.instructor))

IsRecent == Get(intent, "recent") = PyBool(TRUE)

RecentOk(x) ==
    IsRecent =>
       /\ ~_semester_year_sql(x.semester).null
       /\ _semester_year_sql(x.semester).v >= year_now - DEFAULT_RECENCY_YEARS

\* the enrollment guard, read with the rows of no students left out always
EnrollmentOk(x) ==
    /\ x.total_students > 0
    /\ ~IsSet("class_num") => x.total_students >= MIN_ENROLLMENT

\* C6 as stated: the rows returned are warehouse rows, each once, that satisfy
\* every active filter (subject, class_num, level, keywords, instructor_like,
\* enrollment, recency), and when top_n does not cut the result they are all
\* such rows.
C6_ExactlyTheRowsPassingEveryFilter ==
    RankReturned =>
       LET passes(x) == /\ SubjectOk(x) /\ ClassNumOk(x) /\ LevelOk(x)
                        /\ KeywordsOk(x) /\ InstructorOk(x) /\ EnrollmentOk(x)
                        /\ RecentOk(x)
       IN  /\ Returned \subseteq Sections
           /\ Cardinality(Returned) = Len(rows)
           /\ \A x \in Returned : passes(x)
           /\ NoCut => \A x \in Sections : passes(x) => x \in Returned

\* the filters other than class_num and enrollment
OtherFiltersOk(x) ==
    SubjectOk(x) /\ LevelOk(x) /\ KeywordsOk(x) /\ InstructorOk(x) /\ RecentOk(x)

SameButSemester(x, y) == [x EXCEPT !.semester = y.semester] = y

\* C8: with recent true, every row returned has a semester that decodes to a
\* year >= the current year minus the recency window, so a row whose semester
\* does not decode is not returned; with recent not true, of two sections
\* that differ in their semester only, either both are returned or neither.
C8_RecencyWindow ==
    RankReturned =>
       /\ IsRecent =>
             \A x \in Returned :
                /\ ~_semester_year_sql(x.semester).null
                /\ _semester_year_sql(x.semester).v >= year_now - DEFAULT_RECENCY_YEARS
       /\ ~IsRecent /\ NoCut =>
             \A x, y \in Sections :
                SameButSemester(x, y) => (x \in Returned <=> y \in Returned)

\* C8 witness: a recent query over a section of a year in the window and one
\* whose semester does not decode returned the first only
C8_Witness ==
    /\ RankReturned
    /\ IsRecent
    /\ top_n = 2
    /\ Len(warehouse) = 2
    /\ \E x \in Sections : _semester_year_sql(x.semester).null
    /\ Len(rows) = 1

\* C9 as stated: with keywords non-empty, every row returned matches the
\* phrase test of at least one requested family, and (when top_n does not cut
\* the result) every section that does and passes the other filters is
\* returned; for every tag a parser can emit.
C9_KeywordFilter ==
    RankReturned /\ HasKeywords =>
       /\ \A x \in Returned : KeywordsOk(x)
       /\ NoCut =>
             \A x \in Sections :
                /\ KeywordsOk(x)
                /\ SubjectOk(x) /\ ClassNumOk(x) /\ LevelOk(x) /\ InstructorOk(x)
                /\ EnrollmentOk(x) /\ RecentOk(x)
                => x \in Returned

\* C10 as stated: with level set, every row returned has a class_num that
\* parses as an integer in [level, level + 99], and (when top_n does not cut
\* the result) every section that does and passes the other filters is
\* returned; for every level a parser can emit, 0 included.
C10_LevelBand ==
    RankReturned /\ IsSet("level") =>
       /\ \A x \in Returned : LevelOk(x)
       /\ NoCut =>
             \A x \in Sections :
                /\ LevelOk(x)
                /\ SubjectOk(x) /\ ClassNumOk(x) /\ KeywordsOk(x) /\ InstructorOk(x)
                /\ EnrollmentOk(x) /\ RecentOk(x)
                => x \in Returned

\* C11 as stated: with instructor_like set, every row returned has an
\* instructor name that, lowercased, contains the lowercased instructor_like
\* as a literal substring, and (when top_n does not cut the result) every
\* section that does and passes the other filters is returned; for every
\* string a parser can emit, a single quote, '%' or '_' in it included.
C11_InstructorSubstring ==
    RankReturned /\ IsSet("instructor_like") =>
       /\ \A x \in Returned : InstructorOk(x)
       /\ NoCut =>
             \A x \in Sections :
                /\ InstructorOk(x)
                /\ SubjectOk(x) /\ ClassNumOk(x) /\ LevelOk(x) /\ KeywordsOk(x)
                /\ EnrollmentOk(x) /\ RecentOk(x)
                => x \in Returned

-----------------------------------------------------------------------------
(* Claims about details_section and about a missing warehouse              *)

DetailsReturned == pc = "detailed"

\* C12: details_section returns at most 20 rows, however many rows match and
\* whatever top_n the caller had, and of any two rows it returns whose semester
\* decodes to a year, the earlier one in the list is of no earlier a year.
C12_DetailsTwentyNewestFirst ==
    DetailsReturned =>
       /\ Len(rows) <= 20
       /\ \A i, j \in DOMAIN rows :
             /\ i < j
             /\ ~_semester_year_sql(rows[i].semester).null
             /\ ~_semester_year_sql(rows[j].semester).null
             => _semester_year_sql(rows[i].semester).v
                   >= _semester_year_sql(rows[j].semester).v

\* more than 20 rows matched, in a file order that is not the order of the
\* years, and 20 came back
C12_Witness ==
    /\ DetailsReturned
    /\ Len(ranked) > 20
    /\ Len(rows) = 20
    /\ \E i, j \in DOMAIN ranked :
          /\ i < j
          /\ ~_semester_year_sql(ranked[i].semester).null
          /\ ~_semester_year_sql(ranked[j].semester).null
          /\ _semester_year_sql(ranked[i].semester).v
                < _semester_year_sql(ranked[j].semester).v

\* C13 as stated: on a warehouse file that does not exist, rank_professors and
\* details_section both return the empty list, open no connection and log a
\* warning.
C13_MissingWarehouse ==
    (pc \in {"ranked", "detailed"} /\ ~warehouse_exists) =>
       /\ rows = << >>
       /\ con = "none"
       /\ \E i \in DOMAIN log : log[i] = "warning"

\* C14 as stated: a second run of rank_professors with the same intent and
\* top_n over the same warehouse returns the list the first run returned,
\* whenever it happens.
C14_SameListTwice ==
    [][(pc = "ranked" /\ pc' = "ranked_again") => rows' = rows]_vars

-----------------------------------------------------------------------------
(* Claims about a failing text-completion service and about the rule parser *)

\* C15: when the service fails (the client cannot be created, or the request
\* raises), parse_with_llm ends with that exception: it returns no intent, the
\* all-defaults one included, and has made at most the one request that failed.
C15_ServiceFailurePropagates ==
    (use_llm /\ collaborator # "ok" /\ pc # "start") =>
       /\ pc = "llm_failed"
       /\ intent = EmptyDict
       /\ requests = (IF collaborator = "no_client" THEN 0 ELSE 1)

\* the request raised and parse_with_llm has ended
C15_Witness ==
    /\ use_llm
    /\ collaborator = "request_raises"
    /\ pc = "llm_failed"
    /\ requests = 1

\* the tokens of the text the rule parser was given
Tokens == _tokenize(user_text)

\* t is <digits>-level: it ends in "-level" and what precedes its first dash
\* is all digits
LevelForm(t) ==
    /\ EndsWith(t, <<"-", "l", "e", "v", "e", "l">>)
    /\ \E k \in DOMAIN t : t[k] = "-" /\ IsDigitStr(SubSeq(t, 1, k - 1))

\* the digits before the first dash of t
DigitPrefix(t) ==
    SubSeq(t, 1, (CHOOSE k \in DOMAIN t : t[k] = "-" /\ \A j \in 1..(k - 1) : t[j] # "-") - 1)

IsPolarityWord(t) == t \in DOMAIN POLARITY_MAP

IsSubjectCode(t) == Upper(t) \in SUBJECT_CODES

IsClassNum(t) == IsDigitStr(t) \/ LevelForm(t)

HasExplainFlag ==
    \E k \in DOMAIN user_text :
       /\ k + 7 <= Len(user_text)
       /\ Lower(SubSeq(user_text, k, k + 7)) = <<"-", "e", "x", "p", "l", "a", "i", "n">>

\* C17: in the rule parser recent is true iff some token is a recency trigger,
\* details is true iff some token is a detail trigger, and explain is true iff
\* the text contains "-explain" in any case; wherever the token stands.
C17_FlagsAnywhere ==
    RuleParsed =>
       \A T \in { Tokens } :
          /\ intent.recent = PyBool(\E i \in DOMAIN T : T[i] \in RECENT_TOKENS)
          /\ intent.details = PyBool(\E i \in DOMAIN T : T[i] \in DETAIL_TOKENS)
          /\ intent.explain = PyBool(HasExplainFlag)

\* a text whose only recency trigger is its last word, whose detail trigger
\* is not its first word and which holds "--explain": all three flags are set
C17_Witness ==
    /\ RuleParsed
    /\ Len(Tokens) = 3
    /\ Tokens[1] \notin RECENT_TOKENS \cup DETAIL_TOKENS
    /\ Tokens[2] \in DETAIL_TOKENS
    /\ Tokens[3] \in RECENT_TOKENS
    /\ intent.recent = PyBool(TRUE)
    /\ intent.details = PyBool(TRUE)
    /\ intent.explain = PyBool(TRUE)

\* the tags in the keywords list of the intent
KeywordTags == { intent.keywords.v[i].v : i \in DOMAIN intent.keywords.v }

\* C18: in the rule parser keywords holds exactly the family tags that have a
\* synonym among the tokens, each once: a token of several families brings
\* all of them ('ai' brings ml and ai) and a family without a synonym among
\* the tokens is absent.
C18_KeywordFamilies ==
    RuleParsed =>
       \A T \in { Tokens } :
          /\ intent.keywords.t = "list"
          /\ \A i \in DOMAIN intent.keywords.v : intent.keywords.v[i].t = "str"
          /\ KeywordTags =
                { key \in DOMAIN KEYWORD_SYNONYMS :
                    \E i \in DOMAIN T : T[i] \in KEYWORD_SYNONYMS[key] }
          /\ \A i, j \in DOMAIN intent.keywords.v :
                intent.keywords.v[i] = intent.keywords.v[j] => i = j
          /\ (\E i \in DOMAIN T : T[i] = <<"a", "i">>) =>
                {<<"m", "l">>, <<"a", "i">>} \subseteq KeywordTags

\* 'show easy ml courses 500-level' has been parsed to keywords ['ml']
C18_Witness ==
    /\ RuleParsed
    /\ user_text = <<"s", "h", "o", "w", " ", "e", "a", "s", "y", " ", "m", "l", " ", "c", "o", "u", "r", "s", "e", "s", " ", "5", "0", "0", "-", "l", "e", "v", "e", "l">>
    /\ KeywordTags = { <<"m", "l">> }

\* the token at i of the list T gives a level: it is <digits>-level, or it
\* is all digits and the next token is 'level'
GivesLevel(T, i) ==
    \/ LevelForm(T[i])
    \/ /\ IsDigitStr(T[i])
       /\ i < Len(T)
       /\ T[i + 1] = <<"l", "e", "v", "e", "l">>

IsLeftover(t) ==
    /\ ~IsDigitStr(t)
    /\ t \notin RECENT_TOKENS
    /\ t \notin DETAIL_TOKENS
    /\ t \notin DOMAIN POLARITY_MAP
    /\ \A key \in DOMAIN KEYWORD_SYNONYMS : t \notin KEYWORD_SYNONYMS[key]
    /\ \A s \in SUBJECT_CODES : t # Lower(s)
    /\ t # <<"l", "e", "v", "e", "l">>

\* C20: in the rule parser instructor_like is non-null only when details is
\* true; when details is true it is the last token that is neither all digits
\* nor in the garbage set, and null when no such token remains.
C20_InstructorLikeLastLeftover ==
    RuleParsed =>
       \A T \in { Tokens } :
          /\ intent.instructor_like # PyNone => intent.details = PyBool(TRUE)
          /\ intent.details = PyBool(TRUE) =>
                IF \E i \in DOMAIN T : IsLeftover(T[i])
                THEN \E i \in DOMAIN T :
                        /\ IsLeftover(T[i])
                        /\ \A j \in (i + 1)..Len(T) : ~IsLeftover(T[j])
                        /\ intent.instructor_like = PyStr(T[i])
                ELSE intent.instructor_like = PyNone

\* 'details cs 580 prof yu' has been parsed to details true and
\* instructor_like 'yu'
C20_Witness ==
    /\ RuleParsed
    /\ user_text = <<"d", "e", "t", "a", "i", "l", "s", " ", "c", "s", " ", "5", "8", "0", " ", "p", "r", "o", "f", " ", "y", "u">>
    /\ intent.details = PyBool(TRUE)
    /\ intent.instructor_like = PyStr(<<"y", "u">>)

-----------------------------------------------------------------------------
(* Claims about the overlap of class_num and level                         *)

\* the params without their level
WithoutLevel(params) == [k \in DOMAIN params \ {"level"} |-> params[k]]

\* C23 as stated: when class_num and level are both set the compiler ignores
\* level: rank_professors returns what it returns for the same intent without
\* the level.
C23_LevelIgnoredWithClassNum ==
    (RankReturned /\ IsSet("class_num") /\ IsSet("level")) =>
       rows \in FinalSelect(Ranked(warehouse, WithoutLevel(intent), year_now),
                            _order_clause(PolarityOf(intent)), top_n)

\* t has a digit in it
BearsDigit(t) == \E k \in DOMAIN t : t[k] \in DIGIT_SET

\* t is d-level with d all digits
IsDashLevel(t) ==
    /\ EndsWith(t, <<"-", "l", "e", "v", "e", "l">>)
    /\ IsDigitStr(SubSeq(t, 1, Len(t) - 6))

-----------------------------------------------------------------------------
(* Claims about the normalization of the model's reply                     *)

\* a JSON number: an integer or a number with a fraction or exponent
IsJsonNumber(x) == x.t \in {"int", "float"}

\* C25 as stated: normalization gives class_num the stringified integer of a
\* JSON number and the trimmed form of a non-empty string, gives level the
\* integer of a JSON number, and gives null for every other value (boolean,
\* null, list, object, empty or whitespace-only string, and for level any
\* string).
C25_ClassNumLevelByType ==
    LLMParsed =>
       \A c \in { Get(data, "class_num") }, l \in { Get(data, "level") } :
          /\ intent.class_num =
                (IF IsJsonNumber(c) THEN PyStr(IntToStr(IntOf(c)))
                 ELSE IF c.t = "str" /\ Strip(c.v) # << >> THEN PyStr(Strip(c.v))
                 ELSE PyNone)
          /\ intent.level = (IF IsJsonNumber(l) THEN PyInt(IntOf(l)) ELSE PyNone)

\* "hard" or "strict" occurs in the text sent to the model, in any case of
\* letters
TextSaysHard ==
    \E k \in DOMAIN user_text :
       \/ k + 3 <= Len(user_text) /\ Lower(SubSeq(user_text, k, k + 3)) = <<"h", "a", "r", "d">>
       \/ k + 5 <= Len(user_text) /\ Lower(SubSeq(user_text, k, k + 5)) = <<"s", "t", "r", "i", "c", "t">>

\* C26: normalization keeps a payload polarity that, lowercased, is exactly
\* 'easy' or 'hard'; otherwise (missing, null, not a string, any other string)
\* polarity is 'hard' iff the original text contains 'hard' or 'strict' in any
\* case, else 'easy'.
C26_PolarityKeptOrFromText ==
    LLMParsed =>
       \A p \in { Get(data, "polarity") } :
          IF p.t = "str" /\ Lower(p.v) \in { <<"e", "a", "s", "y">>, <<"h", "a", "r", "d">> }
          THEN intent.polarity = PyStr(Lower(p.v))
          ELSE intent.polarity = PyStr(IF TextSaysHard THEN <<"h", "a", "r", "d">> ELSE <<"e", "a", "s", "y">>)

\* the payload's polarity is a string that is neither word, the text is
\* 'STRICTLY', and the polarity returned is 'hard'
C26_Witness ==
    /\ LLMParsed
    /\ Get(data, "polarity") = PyStr(<<" ", "C", "s", " ">>)
    /\ user_text = <<"S", "T", "R", "I", "C", "T", "L", "Y">>
    /\ intent.polarity = PyStr(<<"h", "a", "r", "d">>)

-----------------------------------------------------------------------------
(* Claims about the decoding of the semester code                          *)

\* the year the claim gives a semester code: 2000 + its last two characters
\* when they are digits, undefined otherwise
TrailingYear(semester) ==
    IF /\ Len(semester) >= 2
       /\ IsDigitStr(SubSeq(semester, Len(semester) - 1, Len(semester)))
    THEN SqlInt(2000 + DigitsToInt(SubSeq(semester, Len(semester) - 1, Len(semester))))
    ELSE SqlNull

\* C28 as stated, for the recency filter: a semester code decodes to 2000 + its
\* last two digits whenever its last two characters are digits, so a query
\* that asks for recent sections only returns (when top_n does not cut the
\* result) exactly the sections above the enrollment guard whose code decodes
\* in this way to a year in the window.
C28_TrailingTwoDigitsDecode ==
    (RankReturned /\ DOMAIN intent = {"recent"} /\ NoCut) =>
       \A x \in Sections :
          x \in Returned <=>
             /\ x.total_students >= MIN_ENROLLMENT
             /\ ~TrailingYear(x.semester).null
             /\ TrailingYear(x.semester).v >= year_now - DEFAULT_RECENCY_YEARS

-----------------------------------------------------------------------------
(* Claims about the --explain flag and about get_intent                    *)

\* the text ends in ' --explain'
EndsWithExplainFlag == EndsWith(user_text, <<" ", "-", "-", "e", "x", "p", "l", "a", "i", "n">>)

\* the text without its last ten characters, ' --explain'
BeforeExplainFlag == SubSeq(user_text, 1, Len(user_text) - 10)

\* a dict without its explain entry
WithoutExplain(d) == [k \in DOMAIN d \ {"explain"} |-> d[k]]

\* C30 as stated: for every text t, parse(t + ' --explain') has explain true
\* and equals parse(t) in polarity, subject, class_num, level, keywords,
\* recent, details and instructor_like.
C30_ExplainFlagChangesExplainOnly ==
    (RuleParsed /\ EndsWithExplainFlag) =>
       /\ intent.explain = PyBool(TRUE)
       /\ \E kwlist \in ListsOf(_extract_keywords(_tokenize(BeforeExplainFlag))) :
             WithoutExplain(intent) = WithoutExplain(parse(BeforeExplainFlag, kwlist))

\* parse_with_llm raises on the text and reply of this request
ModelParserRaises == parse_with_llm(collaborator, data, user_text).pc # "parsed"

-----------------------------------------------------------------------------
(* Claims about a reply of the model that holds no JSON object             *)

\* the reply has no '{' with a '}' somewhere after it
NoBracePair ==
    ~\E i, j \in DOMAIN content : i < j /\ content[i] = "{" /\ content[j] = "}"

\* the reply's span from its first '{' to its last '}' is not valid JSON
SpanIsNotJson ==
    \E i, j \in DOMAIN content :
       /\ i < j
       /\ content[i] = "{" /\ \A k \in 1..(i - 1) : content[k] # "{"
       /\ content[j] = "}" /\ \A k \in (j + 1)..Len(content) : content[k] # "}"
       /\ JsonLoadsRaises(SubSeq(content, i, j))

\* C27: when the model's reply is empty, has no '{' followed later by a '}',
\* or its span from the first '{' to the last '}' is not valid JSON,
\* parse_with_llm returns, without raising, the defaults of every field:
\* subject, class_num, level and instructor_like null, keywords empty, recent,
\* explain and details false, and the polarity the original text gives.
C27_NoJsonGivesDefaults ==
    (pc # "start" /\ (content = << >> \/ NoBracePair \/ SpanIsNotJson)) =>
       /\ pc = "parsed"
       /\ intent =
             [ polarity |-> PyStr(IF TextSaysHard THEN <<"h", "a", "r", "d">> ELSE <<"e", "a", "s", "y">>),
               subject |-> PyNone,
               class_num |-> PyNone,
               keywords |-> PyList(<< >>),
               recent |-> PyBool(FALSE),
               level |-> PyNone,
               instructor_like |-> PyNone,
               explain |-> PyBool(FALSE),
               details |-> PyBool(FALSE) ]

\* a reply with two objects in it, whose span is not JSON, has been answered
\* with the defaults, the polarity 'hard' taken from the text
C27_Witness ==
    /\ pc = "parsed"
    /\ SpanIsNotJson
    /\ Len(content) > 20
    /\ user_text = <<"S", "T", "R", "I", "C", "T", "L", "Y">>
    /\ intent.polarity = PyStr(<<"h", "a", "r", "d">>)
    /\ intent.level = PyNone

-----------------------------------------------------------------------------
(* The connections of rank_professors and details_section                   *)

\* the connections a caller's calls have made that are still open
OpenConnectionsOf(c) ==
    { i \in DOMAIN connections : connections[i].owner = c /\ connections[i].open }

\* a caller whose call is not between its duckdb.connect() and its return
OutOfCall(c) == calls[c].pc \in { "idle", "called", "returned", "raised" }

\* C21: every connection rank_professors or details_section opens is closed
\* before the call returns or raises, when the query succeeds and when it
\* fails alike; after any sequence of calls (successful, failing, or with the
\* warehouse file missing) no connection is left open.
C21_NoConnectionLeftOpen ==
    \A c \in Callers :
        /\ OutOfCall(c) => OpenConnectionsOf(c) = { }
        /\ Cardinality(OpenConnectionsOf(c)) <= 1
        /\ (calls[c].pc = "returned" /\ ~warehouse_exists) => calls[c].con = 0

\* both callers have made all their calls, one of the last raised from its
\* query and the other returned rows, and every connection made is closed
C21_Witness ==
    /\ \A c \in Callers : calls[c].runs = MaxRuns /\ OutOfCall(c)
    /\ \E c, d \in Callers :
          /\ calls[c].pc = "raised" /\ calls[c].con # 0
          /\ calls[d].pc = "returned" /\ calls[d].rows # << >>
    /\ Len(connections) = 2 * MaxRuns
    /\ \A i \in DOMAIN connections : ~connections[i].open

\* a caller whose call holds a connection: connected, with or without the
\* outcome of its query, and not yet through the finally clause
InQuery(c) == calls[c].pc \in { "connected", "executed", "failing" }

\* C22: under any interleaving of concurrent rank_professors and
\* details_section calls, each call uses its own connection (made by itself,
\* open until it closes it itself), the warehouse is never modified, and each
\* call returns what it returns when run alone.
C22_ConcurrentCallsIndependent ==
    /\ \A c \in Callers :
          /\ InQuery(c) =>
                /\ calls[c].con \in DOMAIN connections
                /\ connections[calls[c].con].owner = c
                /\ connections[calls[c].con].open
                /\ \A d \in Callers \ { c } : InQuery(d) => calls[d].con # calls[c].con
          /\ calls[c].pc \in { "executed", "returned" } =>
                calls[c].rows \in (IF warehouse_exists
                                   THEN QueryResults(calls[c], CallWarehouse, year_now)
                                   ELSE { << >> })
    /\ warehouse = (IF warehouse_exists THEN CallWarehouse ELSE << >>)

\* a ranking and a drill-down in flight at once, each with its rows, on two
\* connections, after an earlier call on either side
C22_Witness ==
    \E c, d \in Callers :
        /\ calls[c].pc = "executed" /\ calls[c].kind = "rank" /\ calls[c].rows # << >>
        /\ calls[d].pc = "executed" /\ calls[d].kind = "details" /\ calls[d].rows # << >>
        /\ calls[c].con # calls[d].con
        /\ calls[c].runs = MaxRuns /\ calls[d].runs = MaxRuns

-----------------------------------------------------------------------------
(* The program: a request is parsed, or a parsed request is answered       *)

Init == IntentInit \/ RankInit \/ DetailsInit

Next == RuleParse \/ ParseWithLLM \/ RankProfessors \/ DetailsSection

Spec == Init /\ [][Next]_vars

====
